---- MODULE Spec2Model ----
(***************************************************************************)
(* Verification model of the capture / provenance core of kuse_cowork:     *)
(*   - capture/buffer.rs       RingBuffer<T>, CaptureBuffer                *)
(*   - capture/source_link.rs  ActiveSourceTracker, SourceLinker           *)
(*   - capture/storage.rs      Database source-link tables                 *)
(*   - capture/types.rs        SourceType / ContributionType codecs        *)
(*                                                                         *)
(* Each subsystem has its own specification over the shared variable       *)
(* tuple; a specification leaves the other subsystems in their constructed *)
(* state.                                                                  *)
(***************************************************************************)
EXTENDS Integers, Sequences, FiniteSets, TLC

\* ---------------------------------------------------------------------
\* Variables
\* ---------------------------------------------------------------------

\* A free-standing RingBuffer<i32> (as in test_ring_buffer_basic).
VARIABLE rb
\* History: the values pushed into rb since it was last emptied.
VARIABLE rbPushed
\* History: the vector returned by a RingBuffer::drain_all that was the last
\* operation (empty otherwise).
VARIABLE rbOut
\* History: the last RingBuffer operation ("new", "push", "drain_all", "clear").
VARIABLE rbOp

ringVars == <<rb, rbPushed, rbOut, rbOp>>

\* CaptureBuffer: the five family rings (a function from family name to
\* RingBuffer) and the clipboard dedup slot (an Option: <<>> or <<hash>>).
VARIABLE ring
VARIABLE last_clipboard_hash
\* Which thread holds each family's mutex (0 = unlocked).
VARIABLE lock
\* Per caller thread: the CaptureBuffer method it is inside, and its locals.
VARIABLE pc
VARIABLE local
\* The next capture id a caller mints (ids are fresh uuids in the code).
VARIABLE nextId
\* History: the push_clipboard calls completed since construction or the
\* last clear, oldest first, each with its outcome.
VARIABLE clipCalls
\* History of appends, overflow/clear drops and drain results, per capture id.
VARIABLE appended
VARIABLE dropped
VARIABLE returned
\* History: the family contents with every drain_all taking effect at the
\* instant it returns.
VARIABLE logical
\* History: "never" until a drain_all has returned, then "quiet" until the next
\* capture is appended, then "appended".
VARIABLE sinceDrain

captureVars == <<ring, last_clipboard_hash, lock, pc, local, nextId, clipCalls,
                 appended, dropped, returned, logical, sinceDrain>>

\* infer_contribution_type applied to one argument pair: the arguments, and
\* the Option of its result (None until it has been applied).
VARIABLE inferArgs
VARIABLE inferResult

inferVars == <<inferArgs, inferResult>>

\* The wall clock, chrono::Utc::now().timestamp_millis().
VARIABLE now
\* ActiveSourceTracker.sources: the Vec<ActiveSourceEntry> behind the mutex.
VARIABLE sources
\* The source_links and linked_sources tables, rows in insertion order.
VARIABLE source_links
VARIABLE linked_sources
\* Per caller of SourceLinker::create_source_link: where it is, and its locals.
VARIABLE lpc
VARIABLE llocal
\* The next uuid minted (uuids are fresh in the code).
VARIABLE nextUuid
\* History: per SourceLink id, the tracker contents and the entries
\* get_active_sources returned at the instant of its snapshot, and how the
\* call ended.
VARIABLE snapshots
\* The argument and result of a get_document_provenance call that was the last
\* operation (None otherwise).
VARIABLE provenance
\* History: number of create_source_link calls begun, and number of tracker
\* operations made.
VARIABLE linkCalls
VARIABLE trackerOps
\* History: the Option of the entry the last operation took out of a full
\* tracker (the value of self.sources.remove(idx), which the code drops).
VARIABLE evicted

linkVars == <<now, sources, source_links, linked_sources, lpc, llocal, nextUuid,
              snapshots, provenance, linkCalls, trackerOps, evicted>>

\* One ActiveSourceEntry read twice: its activated_at and the two read times
\* (t1 <= t2), and the Option of the two relevances read.
VARIABLE decayArgs
VARIABLE decayResult

decayVars == <<decayArgs, decayResult>>

\* EventBuffer (workstream/buffer.rs): the VecDeque of buffered events and the
\* current context, an Option of (context_type, context_id).
VARIABLE events
VARIABLE current_context
\* The two mutexes of the EventBuffer: 0 when free, else the thread holding it.
VARIABLE events_mutex
VARIABLE context_mutex
\* Position and locals of each thread calling the EventBuffer.
VARIABLE epc
VARIABLE elocal
\* History: number of events built by callers, number of flush and clear
\* calls, what the last call was given and returned when it was a push
\* (pushResult) or a flush (lastFlush), and the ids of the events all flushes
\* of concurrent callers have returned.
VARIABLE evPushed
VARIABLE ebOps
VARIABLE pushResult
VARIABLE lastFlush
VARIABLE flushedIds

eventVars == <<events, current_context, events_mutex, context_mutex, epc, elocal,
               evPushed, ebOps, pushResult, lastFlush, flushedIds>>

\* The generate_local_summary call under test: its arguments and the Option
\* of its result.
VARIABLE summaryArgs
VARIABLE summaryResult

summaryVars == <<summaryArgs, summaryResult>>

\* The work_blocks table (workstream/storage.rs) and the number of calls that
\* wrote to it.
VARIABLE work_blocks
VARIABLE blockCalls
\* The clock read by cleanup_workstream, in ms.
VARIABLE blockNow
\* The last update, delete or cleanup on work_blocks: the table before it and
\* what it returned; None when the last step was none of these.
VARIABLE blockResult

blockVars == <<work_blocks, blockCalls, blockNow, blockResult>>

\* The content_store table (capture/storage.rs): digest -> row.
VARIABLE content_store
\* The clock read by the content store, in units of 1000 ms.
VARIABLE contentNow
\* Number of store_content / get_content calls made.
VARIABLE contentOps
\* The last call on the content store: its arguments, the table before it
\* and what it returned; None when the last step was not such a call.
VARIABLE contentResult
\* History: the payload with which each present digest was inserted.
VARIABLE firstStored

contentVars == <<content_store, contentNow, contentOps, contentResult, firstStored>>

\* The CaptureConfig shared by the capture components (capture/types.rs): the
\* two switches read here.
VARIABLE capture_config

configVars == <<capture_config>>

\* ClipboardMonitor (capture/clipboard.rs): the running flag, the sampler
\* loops spawned so far (each with its position and its last_content_hash)
\* and the callers of start().
VARIABLE running
VARIABLE tasks
VARIABLE spc
\* The system clipboard: the Option read_clipboard_content returns.
VARIABLE clipboard
\* History: number of start/stop calls and of clipboard changes made, the
\* last of start()/stop() to take a step ("none" before the first), and the
\* capture the last step pushed (None when the last step was no push).
VARIABLE ctlOps
VARIABLE clipSets
VARIABLE lastCtl
VARIABLE lastPush

samplerVars == <<running, tasks, spc, clipboard, ctlOps, clipSets, lastCtl, lastPush>>

\* The five capture tables (capture/storage.rs), rows in insertion order.
VARIABLE capture_tables

flushVars == <<capture_tables>>

\* The generate_preview call under test: its arguments and the Option of its
\* result.
VARIABLE previewArgs
VARIABLE previewResult

previewVars == <<previewArgs, previewResult>>

\* History of the tracker: when the last tracker step was a deactivate_source,
\* the source_id it was given and the entries the tracker held before it.
VARIABLE deactivated

trackerCallVars == <<deactivated>>

\* The mutexes of the CaptureBuffer and of the EventBuffer, without the data
\* they guard: the thread holding each (0 when free), the operation each
\* calling thread is in with the index of its next lock or unlock, and the
\* number of operations started.
VARIABLE owner
VARIABLE calls
VARIABLE lockOps

lockVars == <<owner, calls, lockOps>>

\* ClipboardMonitor's active source (capture/clipboard.rs:14-17): the two
\* mutex-guarded Options, the position and arguments of each caller of
\* set_active_source, the sampler's position in lines 92-104 with the url it
\* has read, the number of calls and of captures built, and the Option of the
\* (source_url, source_title) of the capture built last.
VARIABLE active_source_url
VARIABLE active_source_title
VARIABLE setCalls
VARIABLE sourceTick
VARIABLE setOps
VARIABLE sourceTicks
VARIABLE capturedSource

activeVars == <<active_source_url, active_source_title, setCalls, sourceTick,
                setOps, sourceTicks, capturedSource>>

vars == <<ringVars, captureVars, inferVars, linkVars, decayVars, eventVars,
         summaryVars, blockVars,
    contentVars,
    configVars,
    samplerVars,
    flushVars,
    previewVars,
    trackerCallVars,
    lockVars,
    activeVars>>

\* What the actions of one subsystem leave alone.
notRing == <<captureVars, inferVars, linkVars, decayVars, eventVars, summaryVars,
             blockVars,
    contentVars,
    configVars,
    samplerVars,
    flushVars,
    previewVars,
    trackerCallVars,
    lockVars,
    activeVars>>
notCapture == <<ringVars, inferVars, linkVars, decayVars, eventVars, summaryVars,
                blockVars,
    contentVars,
    configVars,
    samplerVars,
    flushVars,
    previewVars,
    trackerCallVars,
    lockVars,
    activeVars>>
notInfer == <<ringVars, captureVars, linkVars, decayVars, eventVars, summaryVars,
              blockVars,
    contentVars,
    configVars,
    samplerVars,
    flushVars,
    previewVars,
    trackerCallVars,
    lockVars,
    activeVars>>
notLink == <<ringVars, captureVars, inferVars, decayVars, eventVars, summaryVars,
             blockVars,
    contentVars,
    configVars,
    samplerVars,
    flushVars,
    previewVars,
    trackerCallVars,
    lockVars,
    activeVars>>

\* What a step of the tracker leaves alone besides its call history.
notLinkNorCall == <<ringVars, captureVars, inferVars, decayVars, eventVars, summaryVars,
             blockVars,
    contentVars,
    configVars,
    samplerVars,
    flushVars,
    previewVars,
    lockVars,
    activeVars>>
notDecay == <<ringVars, captureVars, inferVars, linkVars, eventVars, summaryVars,
              blockVars,
    contentVars,
    configVars,
    samplerVars,
    flushVars,
    previewVars,
    trackerCallVars,
    lockVars,
    activeVars>>
notEvent == <<ringVars, captureVars, inferVars, linkVars, decayVars, summaryVars,
              blockVars,
    contentVars,
    configVars,
    samplerVars,
    flushVars,
    previewVars,
    trackerCallVars,
    lockVars,
    activeVars>>
notSummary == <<ringVars, captureVars, inferVars, linkVars, decayVars, eventVars,
                blockVars,
    contentVars,
    configVars,
    samplerVars,
    flushVars,
    previewVars,
    trackerCallVars,
    lockVars,
    activeVars>>
notBlock == <<ringVars, captureVars, inferVars, linkVars, decayVars, eventVars,
              summaryVars,
    contentVars,
    configVars,
    samplerVars,
    flushVars,
    previewVars,
    trackerCallVars,
    lockVars,
    activeVars>>

notContent == <<ringVars, captureVars, inferVars, linkVars, decayVars, eventVars, summaryVars, blockVars,
    configVars,
    samplerVars,
    flushVars,
    previewVars,
    trackerCallVars,
    lockVars,
    activeVars>>

notConfig == <<ringVars, captureVars, inferVars, linkVars, decayVars, eventVars, summaryVars, blockVars, contentVars,
    samplerVars,
    flushVars,
    previewVars,
    trackerCallVars,
    lockVars,
    activeVars>>

notSampler == <<ringVars, captureVars, inferVars, linkVars, decayVars, eventVars, summaryVars, blockVars, contentVars, configVars,
    flushVars,
    previewVars,
    trackerCallVars,
    lockVars,
    activeVars>>

notFlush == <<ringVars, captureVars, inferVars, linkVars, decayVars, eventVars, summaryVars, blockVars, contentVars, configVars, samplerVars,
    previewVars,
    trackerCallVars,
    lockVars,
    activeVars>>

notPreview == <<ringVars, captureVars, inferVars, linkVars, decayVars, eventVars, summaryVars, blockVars, contentVars, configVars, samplerVars, flushVars,
    trackerCallVars,
    lockVars,
    activeVars>>

notTrackerCall == <<ringVars, captureVars, inferVars, linkVars, decayVars, eventVars, summaryVars, blockVars, contentVars, configVars, samplerVars, flushVars, previewVars,
    lockVars,
    activeVars>>

notLock == <<ringVars, captureVars, inferVars, linkVars, decayVars, eventVars, summaryVars, blockVars, contentVars, configVars, samplerVars, flushVars, previewVars, trackerCallVars,
    activeVars>>

notActive == <<ringVars, captureVars, inferVars, linkVars, decayVars, eventVars, summaryVars, blockVars, contentVars, configVars, samplerVars, flushVars, previewVars, trackerCallVars, lockVars>>

\* ---------------------------------------------------------------------
\* Bounds
\* ---------------------------------------------------------------------

\* Largest capacity a free-standing RingBuffer is constructed with.
MaxCapacity == 3
\* Values pushed into the free-standing RingBuffer are 1..MaxValue.
MaxValue == 4
\* Number of pushes between two drains of the free-standing RingBuffer.
MaxRingPushes == 4

\* Scaled-down ring capacities (the code's are 50, 100, 50, 20, 50).
CLIPBOARD_CAPACITY == 2
BROWSE_CAPACITY == 2
SEARCH_CAPACITY == 1
AI_EXCHANGE_CAPACITY == 1
DOC_EDIT_CAPACITY == 1
\* Number of captures callers submit in one run (capture ids are 1..MaxCaptures).
MaxCaptures == 3
\* The same, for runs with concurrent callers.
ConcCaptures == 2

\* content_store ages, in the clock's unit of 1000 ms (the code's TTL is
\* 30 * 24 * 60 * 60 * 1000 ms), and the access count that exempts an entry.
CONTENT_TTL_MS == 2592000
MIN_ACCESS_COUNT_TO_KEEP == 3
\* Number of store_content / get_content calls in one run.
MaxContentOps == 4
\* Scaled-down size limit of a clipboard text, in bytes (the code's is
\* 50 * 1024).
MAX_CLIPBOARD_SIZE == 3
\* Number of start()/stop() calls and of clipboard changes in one run.
MaxControlOps == 3
MaxClipSets == 2
\* Longest text, in characters, and largest limit generate_preview is given.
MaxPreviewChars == 3
MaxPreviewLen == 3
\* Age past which cleanup_workstream deletes a work block, in ms.
WORK_BLOCK_TTL_MS == 604800000

\* ---------------------------------------------------------------------
\* Sequence helpers
\* ---------------------------------------------------------------------

\* VecDeque::pop_front, keeping the remaining deque (None on empty).
pop_front(s) == IF s = <<>> THEN <<>> ELSE Tail(s)

\* The last n elements of s, in order (all of s when it is shorter).
LastN(s, n) ==
    IF Len(s) <= n THEN s ELSE SubSeq(s, Len(s) - n + 1, Len(s))

\* ---------------------------------------------------------------------
\* RingBuffer<T>                                   capture/buffer.rs:21-80
\* ---------------------------------------------------------------------

RingBuffer_new(capacity) == [buffer |-> <<>>, capacity |-> capacity]

\* Variant of push with the overflow test off by one.
RingBuffer_push_offByOne(self, item) ==
    LET kept == IF Len(self.buffer) > self.capacity
                THEN pop_front(self.buffer) ELSE self.buffer
    IN  [self EXCEPT !.buffer = Append(kept, item)]

RingBuffer_push(self, item) ==
    LET kept == IF Len(self.buffer) >= self.capacity
                THEN pop_front(self.buffer) ELSE self.buffer
    IN  [self EXCEPT !.buffer = Append(kept, item)]

RingBuffer_len(self) == Len(self.buffer)

RingBuffer_is_empty(self) == self.buffer = <<>>

\* Variant that copies the items out (as get_all does) without removing them.
RingBuffer_drain_all_copies(self) == <<self.buffer, self>>

\* drain_all returns <<items, emptied buffer>>.
RingBuffer_drain_all(self) == <<self.buffer, [self EXCEPT !.buffer = <<>>]>>

RingBuffer_clear(self) == [self EXCEPT !.buffer = <<>>]

\* ---------------------------------------------------------------------
\* Specification of the free-standing RingBuffer
\* ---------------------------------------------------------------------

RingInit ==
    /\ rb \in {RingBuffer_new(c) : c \in 0..MaxCapacity}
    /\ rbPushed = <<>>
    /\ rbOut = <<>>
    /\ rbOp = "new"

RingIdle ==
    /\ rb = RingBuffer_new(0)
    /\ rbPushed = <<>>
    /\ rbOut = <<>>
    /\ rbOp = "new"

RingPush ==
    \E v \in 1..MaxValue :
        /\ Len(IF rbOp = "push" THEN rbPushed ELSE <<>>) < MaxRingPushes
        /\ rb' = RingBuffer_push(rb, v)
        /\ rbPushed' = IF rbOp = "push" THEN Append(rbPushed, v) ELSE <<v>>
        /\ rbOp' = "push"
        /\ rbOut' = <<>>
        /\ UNCHANGED notRing

RingDrainAll ==
    /\ rbOut' = RingBuffer_drain_all(rb)[1]
    /\ rb' = RingBuffer_drain_all(rb)[2]
    /\ rbOp' = "drain_all"
    /\ rbPushed' = IF rbOp = "push" THEN rbPushed ELSE <<>>
    /\ UNCHANGED notRing

RingClear ==
    /\ rb' = RingBuffer_clear(rb)
    /\ rbOp' = "clear"
    /\ rbPushed' = <<>>
    /\ rbOut' = <<>>
    /\ UNCHANGED notRing


\* ---------------------------------------------------------------------
\* CaptureBuffer                                  capture/buffer.rs:82-255
\* ---------------------------------------------------------------------

None == <<>>
Some(x) == <<x>>

\* The families in the order drain_all, status and clear visit them.
Families == <<"clipboard", "browse", "search", "ai_exchange", "doc_edit">>
Family == {Families[k] : k \in 1..Len(Families)}

\* content_hash values callers submit.
Hashes == {"h1", "h2"}

Capacity(f) ==
    CASE f = "clipboard"   -> CLIPBOARD_CAPACITY
      [] f = "browse"      -> BROWSE_CAPACITY
      [] f = "search"      -> SEARCH_CAPACITY
      [] f = "ai_exchange" -> AI_EXCHANGE_CAPACITY
      [] f = "doc_edit"    -> DOC_EDIT_CAPACITY

\* The concurrent caller threads.
Threads == {1, 2}

ClipboardCapture(id, h) == [id |-> id, content_hash |-> h]
BrowseCapture(id) == [id |-> id, left_at |-> None, scroll_depth_percent |-> None]
SearchCapture(id) == [id |-> id, result_clicked |-> None]
AIExchangeCapture(id) == [id |-> id]
DocEditCapture(id) == [id |-> id]

\* A fresh capture of family f, as its caller builds it.
NewCapture(f, id, h) ==
    CASE f = "clipboard"   -> ClipboardCapture(id, h)
      [] f = "browse"      -> BrowseCapture(id)
      [] f = "search"      -> SearchCapture(id)
      [] f = "ai_exchange" -> AIExchangeCapture(id)
      [] f = "doc_edit"    -> DocEditCapture(id)

Ids(s) == {s[k].id : k \in 1..Len(s)}

EmptyOut == [f \in Family |-> <<>>]

CaptureBuffer_new ==
    [f \in Family |-> RingBuffer_new(Capacity(f))]

\* push_clipboard's duplicate test against the last-hash slot (line 111).
IsDuplicate(last_hash, capture) == last_hash = Some(capture.content_hash)

\* Variant that forgets to record the accepted hash.
LastHashAfterAccept_forgets(last_hash, capture) == last_hash

\* The slot's value after an accepted push_clipboard (line 115).
LastHashAfterAccept(last_hash, capture) == Some(capture.content_hash)

\* iter_mut().find by id, then patch: the first entry with that id.
FirstWithId(buf, id) ==
    IF \E k \in 1..Len(buf) : buf[k].id = id
    THEN CHOOSE k \in 1..Len(buf) :
            buf[k].id = id /\ \A j \in 1..(k - 1) : buf[j].id # id
    ELSE 0

\* The buffer after update_browse (lines 134-141).
UpdateBrowseBuffer(buf, browse_id, left_at, scroll_depth) ==
    LET k == FirstWithId(buf, browse_id)
    IN  IF k = 0 THEN buf
        ELSE [buf EXCEPT ![k] = [@ EXCEPT !.left_at = Some(left_at),
                                          !.scroll_depth_percent = scroll_depth]]

\* The buffer after update_search_click (lines 154-160).
UpdateSearchBuffer(buf, search_id, clicked_url) ==
    LET k == FirstWithId(buf, search_id)
    IN  IF k = 0 THEN buf
        ELSE [buf EXCEPT ![k] = [@ EXCEPT !.result_clicked = Some(clicked_url)]]

\* buffer.push(capture) on family f under its mutex, with the histories.
AppendTo(f, capture) ==
    LET after == RingBuffer_push(ring[f], capture)
    IN  /\ ring' = [ring EXCEPT ![f] = after]
        /\ appended' = appended \cup {capture.id}
        /\ dropped' = dropped \cup (Ids(ring[f].buffer) \ Ids(after.buffer))
        /\ logical' = [logical EXCEPT ![f] =
               RingBuffer_push([buffer |-> @, capacity |-> Capacity(f)], capture).buffer]
        /\ sinceDrain' = IF sinceDrain = "never" THEN "never" ELSE "appended"

IdleLocal ==
    [capture |-> None, i |-> 0, out |-> EmptyOut, before |-> {},
     counts |-> [f \in Family |-> 0]]


CaptureInit ==
    /\ ring = CaptureBuffer_new
    /\ last_clipboard_hash = None
    /\ lock = [f \in Family |-> 0]
    /\ pc = [t \in Threads |-> "idle"]
    /\ local = [t \in Threads |-> IdleLocal]
    /\ nextId = 1
    /\ clipCalls = <<>>
    /\ appended = {}
    /\ dropped = {}
    /\ returned = [id \in {} |-> 0]
    /\ logical = EmptyOut
    /\ sinceDrain = "never"

\* One more drain result for every id in ids.
CountReturned(ids) ==
    [id \in (DOMAIN returned) \cup ids |->
        (IF id \in DOMAIN returned THEN returned[id] ELSE 0)
        + (IF id \in ids THEN 1 ELSE 0)]

\* ---------------------------------------------------------------------
\* CaptureBuffer, one caller at a time: each action is a whole method
\* ---------------------------------------------------------------------

\* The history record of one completed push_clipboard call.
ClipCall(capture, ret, before, after) ==
    [content_hash |-> capture.content_hash,
     ret          |-> ret,
     stored       |-> capture.id \in Ids(after.buffer),
     changed      |-> after # before,
     len_before   |-> Len(before.buffer),
     len_after    |-> Len(after.buffer),
     epoch        |-> Cardinality(DOMAIN returned)]

\* push_clipboard (lines 107-121) as one step, on the buffer and its
\* histories.
CaptureBuffer_push_clipboard(capture) ==
    IF IsDuplicate(last_clipboard_hash, capture)
    THEN /\ UNCHANGED <<ring, last_clipboard_hash, appended, dropped,
                        logical, sinceDrain>>
         /\ clipCalls' = Append(clipCalls,
                ClipCall(capture, FALSE, ring["clipboard"], ring'["clipboard"]))
    ELSE /\ last_clipboard_hash' =
                LastHashAfterAccept(last_clipboard_hash, capture)
         /\ AppendTo("clipboard", capture)
         /\ clipCalls' = Append(clipCalls,
                ClipCall(capture, TRUE, ring["clipboard"], ring'["clipboard"]))

push_clipboard ==
    \E h \in Hashes :
        LET capture == ClipboardCapture(nextId, h) IN
        /\ nextId <= MaxCaptures
        /\ nextId' = nextId + 1
        /\ CaptureBuffer_push_clipboard(capture)
        /\ UNCHANGED <<lock, pc, local, returned, notCapture>>

\* push_browse, push_search, push_ai_exchange, push_doc_edit
\* (lines 124-127, 145-148, 164-167, 170-173).
push_other ==
    \E f \in Family \ {"clipboard"} :
        /\ nextId <= MaxCaptures
        /\ nextId' = nextId + 1
        /\ AppendTo(f, NewCapture(f, nextId, "h1"))
        /\ UNCHANGED <<notCapture, last_clipboard_hash, lock, pc, local, clipCalls, returned>>

\* Values the exit-info and click updates carry.
LeftAts == {5}
ScrollDepths == {Some(40)}
ClickedUrls == {"u"}

\* update_browse (lines 130-142).
update_browse ==
    \E id \in 1..MaxCaptures, left_at \in LeftAts, scroll_depth \in ScrollDepths :
        LET upd(buf) == UpdateBrowseBuffer(buf, id, left_at, scroll_depth)
            f == "browse"
        IN
        /\ ring' = [ring EXCEPT ![f] = [@ EXCEPT !.buffer = upd(@)]]
        /\ logical' = [logical EXCEPT ![f] = upd(@)]
        /\ UNCHANGED <<notCapture, last_clipboard_hash, lock, pc, local, nextId, clipCalls,
                       appended, dropped, returned, sinceDrain>>

\* update_search_click (lines 151-161).
update_search_click ==
    \E id \in 1..MaxCaptures, clicked_url \in ClickedUrls :
        LET upd(buf) == UpdateSearchBuffer(buf, id, clicked_url)
            f == "search"
        IN
        /\ ring' = [ring EXCEPT ![f] = [@ EXCEPT !.buffer = upd(@)]]
        /\ logical' = [logical EXCEPT ![f] = upd(@)]
        /\ UNCHANGED <<notCapture, last_clipboard_hash, lock, pc, local, nextId, clipCalls,
                       appended, dropped, returned, sinceDrain>>

AllRingIds == UNION {Ids(ring[f].buffer) : f \in Family}

\* A drain that also resets the last-hash slot.
drain_all_resets_guard ==
    LET out == [f \in Family |-> RingBuffer_drain_all(ring[f])[1]] IN
    /\ ring' = [f \in Family |-> RingBuffer_drain_all(ring[f])[2]]
    /\ returned' = CountReturned(UNION {Ids(out[f]) : f \in Family})
    /\ logical' = EmptyOut
    /\ sinceDrain' = "quiet"
    /\ last_clipboard_hash' = None
    /\ UNCHANGED <<notCapture, lock, pc, local, nextId, clipCalls,
                   appended, dropped>>

\* drain_all (lines 176-184).
drain_all ==
    LET out == [f \in Family |-> RingBuffer_drain_all(ring[f])[1]] IN
    /\ ring' = [f \in Family |-> RingBuffer_drain_all(ring[f])[2]]
    /\ returned' = CountReturned(UNION {Ids(out[f]) : f \in Family})
    /\ logical' = EmptyOut
    /\ sinceDrain' = "quiet"
    /\ UNCHANGED <<notCapture, last_clipboard_hash, lock, pc, local, nextId, clipCalls,
                   appended, dropped>>

\* clear (lines 207-214).
clear ==
    /\ ring' = [f \in Family |-> RingBuffer_clear(ring[f])]
    /\ last_clipboard_hash' = None
    /\ dropped' = dropped \cup AllRingIds
    /\ logical' = EmptyOut
    /\ clipCalls' = <<>>
    /\ UNCHANGED <<notCapture, lock, pc, local, nextId, appended, returned, sinceDrain>>

\* ---------------------------------------------------------------------
\* CaptureBuffer with concurrent callers: one action per critical section
\* ---------------------------------------------------------------------

\* Variant in which each family's guard is dropped as soon as the family's
\* field has been computed.
LockAfterFamily_released(lk, f, t) == lk

\* drain_all and status build their result in one struct expression: the
\* MutexGuard temporaries of its fields live until the whole expression has
\* been evaluated, so each family's mutex stays locked until the method returns
\* (lines 177-183, 188-194).
LockAfterFamily(lk, f, t) == [lk EXCEPT ![f] = t]

\* All guards of thread t dropped at the end of the expression.
ReleaseAll(lk, t) == [f \in Family |-> IF lk[f] = t THEN 0 ELSE lk[f]]

InMethod(m) == {t \in Threads : pc[t] = m}

\* push_clipboard, first critical section: the last-hash slot (lines 108-116).
push_clipboard_check(t) ==
    \E h \in Hashes :
        LET capture == ClipboardCapture(nextId, h) IN
        /\ pc[t] = "idle"
        /\ nextId <= ConcCaptures
        /\ nextId' = nextId + 1
        /\ IF IsDuplicate(last_clipboard_hash, capture)
           THEN /\ clipCalls' = Append(clipCalls,
                       ClipCall(capture, FALSE, ring["clipboard"], ring["clipboard"]))
                /\ UNCHANGED <<last_clipboard_hash, pc, local>>
           ELSE /\ last_clipboard_hash' =
                       LastHashAfterAccept(last_clipboard_hash, capture)
                /\ pc' = [pc EXCEPT ![t] = "push_clipboard"]
                /\ local' = [local EXCEPT ![t] = [@ EXCEPT !.capture = Some(capture)]]
                /\ UNCHANGED clipCalls
        /\ UNCHANGED <<notCapture, ring, lock, appended, dropped, returned, logical,
                       sinceDrain>>

\* push_clipboard, second critical section: the clipboard ring (lines 118-120).
push_clipboard_push(t) ==
    LET capture == local[t].capture[1] IN
    /\ pc[t] = "push_clipboard"
    /\ lock["clipboard"] = 0
    /\ AppendTo("clipboard", capture)
    /\ clipCalls' = Append(clipCalls,
           ClipCall(capture, TRUE, ring["clipboard"], ring'["clipboard"]))
    /\ pc' = [pc EXCEPT ![t] = "idle"]
    /\ local' = [local EXCEPT ![t] = IdleLocal]
    /\ UNCHANGED <<notCapture, last_clipboard_hash, lock, nextId, returned>>

\* push_browse, push_search, push_ai_exchange, push_doc_edit under the
\* family's mutex.
push_other_locked(t) ==
    \E f \in Family \ {"clipboard"} :
        /\ pc[t] = "idle"
        /\ lock[f] = 0
        /\ nextId <= ConcCaptures
        /\ nextId' = nextId + 1
        /\ AppendTo(f, NewCapture(f, nextId, "h1"))
        /\ UNCHANGED <<notCapture, last_clipboard_hash, lock, pc, local, clipCalls,
                       returned>>

\* update_browse under the browse mutex.
update_browse_locked(t) ==
    \E id \in 1..ConcCaptures, left_at \in LeftAts, scroll_depth \in ScrollDepths :
        LET upd(buf) == UpdateBrowseBuffer(buf, id, left_at, scroll_depth)
            f == "browse"
        IN
        /\ pc[t] = "idle"
        /\ lock["browse"] = 0
        /\ ring' = [ring EXCEPT ![f] = [@ EXCEPT !.buffer = upd(@)]]
        /\ logical' = [logical EXCEPT ![f] = upd(@)]
        /\ UNCHANGED <<notCapture, last_clipboard_hash, lock, pc, local, nextId,
                       clipCalls, appended, dropped, returned, sinceDrain>>

\* update_search_click under the search mutex.
update_search_click_locked(t) ==
    \E id \in 1..ConcCaptures, clicked_url \in ClickedUrls :
        LET upd(buf) == UpdateSearchBuffer(buf, id, clicked_url)
            f == "search"
        IN
        /\ pc[t] = "idle"
        /\ lock["search"] = 0
        /\ ring' = [ring EXCEPT ![f] = [@ EXCEPT !.buffer = upd(@)]]
        /\ logical' = [logical EXCEPT ![f] = upd(@)]
        /\ UNCHANGED <<notCapture, last_clipboard_hash, lock, pc, local, nextId,
                       clipCalls, appended, dropped, returned, sinceDrain>>

\* drain_all is called.
drain_all_begin(t) ==
    /\ pc[t] = "idle"
    /\ pc' = [pc EXCEPT ![t] = "drain_all"]
    /\ local' = [local EXCEPT ![t] = [IdleLocal EXCEPT !.i = 1, !.before = appended]]
    /\ UNCHANGED <<notCapture, ring, last_clipboard_hash, lock, nextId, clipCalls,
                   appended, dropped, returned, logical, sinceDrain>>

\* drain_all locks and drains its next family (one field of lines 178-182).
drain_all_family(t) ==
    /\ pc[t] = "drain_all"
    /\ local[t].i <= Len(Families)
    /\ LET f == Families[local[t].i]
           items == RingBuffer_drain_all(ring[f])[1]
       IN  /\ lock[f] = 0
           /\ lock' = LockAfterFamily(lock, f, t)
           /\ ring' = [ring EXCEPT ![f] = RingBuffer_drain_all(@)[2]]
           /\ returned' = CountReturned(Ids(items))
           /\ local' = [local EXCEPT ![t] =
                          [@ EXCEPT !.i = @ + 1, !.out = [@ EXCEPT ![f] = items]]]
    /\ UNCHANGED <<notCapture, last_clipboard_hash, pc, nextId, clipCalls, appended,
                   dropped, logical, sinceDrain>>

\* drain_all returns the CaptureBufferDrain and its guards are dropped.
drain_all_end(t) ==
    /\ pc[t] = "drain_all"
    /\ local[t].i > Len(Families)
    /\ lock' = ReleaseAll(lock, t)
    /\ logical' = EmptyOut
    /\ sinceDrain' = "quiet"
    /\ pc' = [pc EXCEPT ![t] = "idle"]
    /\ local' = [local EXCEPT ![t] = IdleLocal]
    /\ UNCHANGED <<notCapture, ring, last_clipboard_hash, nextId, clipCalls,
                   appended, dropped, returned>>

\* status is called.
status_begin(t) ==
    /\ pc[t] = "idle"
    /\ pc' = [pc EXCEPT ![t] = "status"]
    /\ local' = [local EXCEPT ![t] = [IdleLocal EXCEPT !.i = 1]]
    /\ UNCHANGED <<notCapture, ring, last_clipboard_hash, lock, nextId, clipCalls,
                   appended, dropped, returned, logical, sinceDrain>>

\* status locks its next family and reads its length (one field of lines 189-193).
status_family(t) ==
    /\ pc[t] = "status"
    /\ local[t].i <= Len(Families)
    /\ LET f == Families[local[t].i]
       IN  /\ lock[f] = 0
           /\ lock' = LockAfterFamily(lock, f, t)
           /\ local' = [local EXCEPT ![t] =
                          [@ EXCEPT !.i = @ + 1,
                                    !.counts = [@ EXCEPT ![f] = RingBuffer_len(ring[f])]]]
    /\ UNCHANGED <<notCapture, ring, last_clipboard_hash, pc, nextId, clipCalls,
                   appended, dropped, returned, logical, sinceDrain>>

\* status returns the CaptureBufferStatus and its guards are dropped.
status_end(t) ==
    /\ pc[t] = "status"
    /\ local[t].i > Len(Families)
    /\ lock' = ReleaseAll(lock, t)
    /\ pc' = [pc EXCEPT ![t] = "idle"]
    /\ local' = [local EXCEPT ![t] = IdleLocal]
    /\ UNCHANGED <<notCapture, ring, last_clipboard_hash, nextId, clipCalls,
                   appended, dropped, returned, logical, sinceDrain>>

\* clear is called.
clear_begin(t) ==
    /\ pc[t] = "idle"
    /\ pc' = [pc EXCEPT ![t] = "clear"]
    /\ local' = [local EXCEPT ![t] = [IdleLocal EXCEPT !.i = 1]]
    /\ UNCHANGED <<notCapture, ring, last_clipboard_hash, lock, nextId, clipCalls,
                   appended, dropped, returned, logical, sinceDrain>>

\* clear empties its next family; each statement drops its guard (lines 208-212).
clear_family(t) ==
    /\ pc[t] = "clear"
    /\ local[t].i <= Len(Families)
    /\ LET f == Families[local[t].i]
       IN  /\ lock[f] = 0
           /\ ring' = [ring EXCEPT ![f] = RingBuffer_clear(@)]
           /\ logical' = [logical EXCEPT ![f] = <<>>]
           /\ dropped' = dropped \cup Ids(ring[f].buffer)
           /\ local' = [local EXCEPT ![t] = [@ EXCEPT !.i = @ + 1]]
    /\ UNCHANGED <<notCapture, last_clipboard_hash, lock, pc, nextId, clipCalls,
                   appended, returned, sinceDrain>>

\* clear resets the last-hash slot and returns (line 213).
clear_last_hash(t) ==
    /\ pc[t] = "clear"
    /\ local[t].i > Len(Families)
    /\ last_clipboard_hash' = None
    /\ clipCalls' = <<>>
    /\ pc' = [pc EXCEPT ![t] = "idle"]
    /\ local' = [local EXCEPT ![t] = IdleLocal]
    /\ UNCHANGED <<notCapture, ring, lock, nextId, appended, dropped, returned,
                   logical, sinceDrain>>

\* ---------------------------------------------------------------------
\* f32 arithmetic
\* ---------------------------------------------------------------------
\* An f32 is held as an integer count of units: relevances and confidence
\* scores in units of 2^-26, the decay product in units of 2^-30.  Every
\* relevance the decay produces is a multiple of 2^-24 and every mean of
\* relevances >= 0.25 is a multiple of 2^-26, so the counts are exact.

\* An f32 keeps 24 significant bits.
F32_MANTISSA == 2 ^ 24
\* 1.0 in units of 2^-26 and in units of 2^-30.
F32_ONE == 2 ^ 26
F32_ONE_30 == 2 ^ 30
\* The spacing of f32 values in [0.5, 1.0), in units of 2^-26.
F32_ULP_BELOW_ONE == F32_ONE \div F32_MANTISSA

\* The spacing of f32 values around the magnitude n (n a count of units no
\* coarser than that spacing).
RECURSIVE F32Ulp(_)
F32Ulp(n) == IF n < F32_MANTISSA THEN 1 ELSE 2 * F32Ulp(n \div 2)

\* num / den rounded to a multiple of u, ties to even (IEEE 754 default).
RoundRatio(num, den, u) ==
    LET q == num \div (den * u)
        r == num % (den * u)
    IN  IF 2 * r < den * u THEN q * u
        ELSE IF 2 * r > den * u THEN (q + 1) * u
        ELSE IF q % 2 = 0 THEN q * u ELSE (q + 1) * u

\* The f32 quotient of two non-negative values (den an exact integer).
F32Div(num, den) == RoundRatio(num, den, F32Ulp(num \div den))
\* The f32 nearest to the exact value n.
F32Round(n) == F32Div(n, 1)
\* The f32 sum of two non-negative f32 values.
F32Add(a, b) == F32Round(a + b)

\* Iterator::sum::<f32>(): a left fold from 0.0, rounding at every step.
RECURSIVE F32SumFrom(_, _, _)
F32SumFrom(s, k, acc) ==
    IF k > Len(s) THEN acc
    ELSE LET next == F32Add(acc, s[k])
         IN  IF next >= 0 THEN F32SumFrom(s, k + 1, next) ELSE 0
F32Sum(s) == F32SumFrom(s, 1, 0)

\* ---------------------------------------------------------------------
\* SourceType / ContributionType                     capture/types.rs:13-74
\* ---------------------------------------------------------------------

SourceType == {"Webpage", "Clipboard", "AIExchange", "Search", "Document"}
ContributionType == {"DirectCopy", "Referenced", "Inspired", "AIAssisted"}

SourceType_as_str(self) ==
    CASE self = "Webpage" -> "webpage"
      [] self = "Clipboard" -> "clipboard"
      [] self = "AIExchange" -> "ai_exchange"
      [] self = "Search" -> "search"
      [] self = "Document" -> "document"

SourceType_from_str(s) ==
    CASE s = "webpage" -> "Webpage"
      [] s = "clipboard" -> "Clipboard"
      [] s = "ai_exchange" -> "AIExchange"
      [] s = "search" -> "Search"
      [] s = "document" -> "Document"
      [] OTHER -> "Webpage"

ContributionType_as_str(self) ==
    CASE self = "DirectCopy" -> "direct_copy"
      [] self = "Referenced" -> "referenced"
      [] self = "Inspired" -> "inspired"
      [] self = "AIAssisted" -> "ai_assisted"

ContributionType_from_str(s) ==
    CASE s = "direct_copy" -> "DirectCopy"
      [] s = "referenced" -> "Referenced"
      [] s = "inspired" -> "Inspired"
      [] s = "ai_assisted" -> "AIAssisted"
      [] OTHER -> "Referenced"

\* ---------------------------------------------------------------------
\* Relevance decay and contribution type       capture/source_link.rs
\* ---------------------------------------------------------------------

\* 0.01f32, in units of 2^-30.
DECAY_RATE_PER_SEC == 10737418
\* 0.3f32, in units of 2^-26.
MIN_RELEVANCE_THRESHOLD == 20132660
\* The literals 0.8f32 and 0.7f32 of infer_contribution_type, in units of 2^-26.
DIRECT_COPY_ABOVE == 53687092
REFERENCED_ABOVE == 46976204

\* A decay without the clamp .max(0.0).
DecayedRelevance_unclamped(activated_at, t) ==
    LET elapsed_secs == (t - activated_at) \div 1000
        product == F32Round(DECAY_RATE_PER_SEC * elapsed_secs)
    IN  IF product >= F32_ONE_30
        THEN 0 - (F32Round(product - F32_ONE_30) \div (F32_ONE_30 \div F32_ONE))
        ELSE F32Round(F32_ONE_30 - product) \div (F32_ONE_30 \div F32_ONE)

\* Lines 102-103: the relevance of an entry activated at activated_at, read
\* at time t (the clock never runs backwards, so the elapsed time is >= 0).
DecayedRelevance(activated_at, t) ==
    LET elapsed_secs == (t - activated_at) \div 1000
        product == F32Round(DECAY_RATE_PER_SEC * elapsed_secs)
    IN  IF product >= F32_ONE_30 THEN 0
        ELSE F32Round(F32_ONE_30 - product) \div (F32_ONE_30 \div F32_ONE)

\* A mis-read of the table: thresholds taken inclusively.
infer_contribution_type_inclusive(source_type, relevance) ==
    CASE source_type = "Clipboard" ->
            IF relevance >= DIRECT_COPY_ABOVE THEN "DirectCopy" ELSE "Referenced"
      [] source_type = "AIExchange" -> "AIAssisted"
      [] source_type \in {"Webpage", "Search", "Document"} ->
            IF relevance >= REFERENCED_ABOVE THEN "Referenced" ELSE "Inspired"

infer_contribution_type(source_type, relevance) ==
    CASE source_type = "Clipboard" ->
            IF relevance > DIRECT_COPY_ABOVE THEN "DirectCopy" ELSE "Referenced"
      [] source_type = "AIExchange" -> "AIAssisted"
      [] source_type \in {"Webpage", "Search", "Document"} ->
            IF relevance > REFERENCED_ABOVE THEN "Referenced" ELSE "Inspired"

\* Largest whole number of seconds of decay given to infer_contribution_type.
MaxElapsedSecs == 110

\* The relevances infer_contribution_type is applied to: everything the decay
\* produces, and the f32 values on and next to both thresholds.
InferRelevances ==
    {DecayedRelevance(0, 1000 * k) : k \in 0..MaxElapsedSecs}
    \cup {th + d * F32_ULP_BELOW_ONE :
            th \in {DIRECT_COPY_ABOVE, REFERENCED_ABOVE}, d \in {-1, 0, 1}}

InferInit ==
    /\ inferArgs \in [source_type : SourceType, relevance : InferRelevances]
    /\ inferResult = None

InferIdle ==
    /\ inferArgs = [source_type |-> "Webpage", relevance |-> F32_ONE]
    /\ inferResult = None

InferApply ==
    /\ inferResult = None
    /\ inferResult' =
          Some(infer_contribution_type(inferArgs.source_type, inferArgs.relevance))
    /\ UNCHANGED <<inferArgs, notInfer>>

\* ---------------------------------------------------------------------
\* ActiveSourceTracker                      capture/source_link.rs:12-128
\* ---------------------------------------------------------------------

\* Scaled-down tracker capacity (the code's is 30).
MAX_ACTIVE_SOURCES == 2
\* The clock advances in steps of TickMs milliseconds, MaxTicks times.
TickMs == 40000
MaxTicks == 2
\* Number of tracker operations callers make in one run.
MaxTrackerOps == 2

\* The (source_type, source_id, title) arguments callers activate.
SourceArgs ==
    { <<"Clipboard", "c1", Some("t")>>,
      <<"Webpage", "w1", Some("t")>>,
      <<"Search", "w1", Some("u")>>,
      <<"AIExchange", "a1", None>> }
SourceIds == {a[2] : a \in SourceArgs}

ActiveSourceEntry(source_type, source_id, title, activated_at, relevance) ==
    [source_type |-> source_type, source_id |-> source_id, title |-> title,
     activated_at |-> activated_at, relevance |-> relevance]

ActiveSourceTracker_new == <<>>

\* An entry whose cached relevance is never recomputed.
Recompute_stale(source, t) == source

\* Lines 102-103, for one entry.
Recompute(source, t) ==
    [source EXCEPT !.relevance = DecayedRelevance(source.activated_at, t)]

apply_decay_internal(srcs, t) ==
    [k \in 1..Len(srcs) |-> Recompute(srcs[k], t)]

\* A retain that also drops the entries at the threshold.
RetainRelevant_above(srcs, threshold) ==
    SelectSeq(srcs, LAMBDA s : s.relevance > threshold)

\* Vec::retain with the predicate relevance >= threshold.
RetainRelevant(srcs, threshold) ==
    SelectSeq(srcs, LAMBDA s : s.relevance >= threshold)

\* A removal that removes nothing.
RemoveAt_none(srcs, idx) == srcs

\* Vec::remove(idx).
RemoveAt(srcs, idx) ==
    SubSeq(srcs, 1, idx - 1) \o SubSeq(srcs, idx + 1, Len(srcs))

\* A refresh that leaves activated_at as it was.
Refresh_unstamped(source, title, t) ==
    [source EXCEPT !.relevance = F32_ONE, !.title = title]

\* Lines 32-34: the existing entry refreshed.
Refresh(source, title, t) ==
    [source EXCEPT !.relevance = F32_ONE, !.activated_at = t, !.title = title]

\* An eviction of the entry inserted first.
MinIdx_front(srcs) == 1

\* Iterator::min_by over relevance: the first of the least relevant entries.
MinIdx(srcs) ==
    CHOOSE k \in 1..Len(srcs) :
        /\ \A j \in 1..Len(srcs) : srcs[k].relevance <= srcs[j].relevance
        /\ \A j \in 1..(k - 1) : srcs[j].relevance > srcs[k].relevance

\* The tracker after activate_source(source_type, source_id, title) at time t.
ActivateSource(srcs, source_type, source_id, title, t) ==
    IF \E k \in 1..Len(srcs) : srcs[k].source_id = source_id
    THEN LET k == CHOOSE j \in 1..Len(srcs) :
                     /\ srcs[j].source_id = source_id
                     /\ \A h \in 1..(j - 1) : srcs[h].source_id # source_id
         IN  [srcs EXCEPT ![k] = Refresh(@, title, t)]
    ELSE LET entry == ActiveSourceEntry(source_type, source_id, title, t, F32_ONE)
         IN  IF Len(srcs) >= MAX_ACTIVE_SOURCES
             THEN LET decayed == apply_decay_internal(srcs, t)
                  IN  Append(IF decayed = <<>> THEN decayed
                             ELSE RemoveAt(decayed, MinIdx(decayed)), entry)
             ELSE Append(srcs, entry)

\* Lines 47-50: what activate_source(_, source_id, _) at time t removes.
Evicted(srcs, source_id, t) ==
    IF /\ \A k \in 1..Len(srcs) : srcs[k].source_id # source_id
       /\ Len(srcs) >= MAX_ACTIVE_SOURCES
       /\ srcs # <<>>
    THEN LET decayed == apply_decay_internal(srcs, t)
         IN  Some(decayed[MinIdx(decayed)])
    ELSE None

\* get_active_sources at time t: <<the entries returned, the tracker after>>.
GetActiveSources(srcs, min_relevance, t) ==
    LET threshold == IF min_relevance = None THEN MIN_RELEVANCE_THRESHOLD
                     ELSE min_relevance[1]
        decayed == apply_decay_internal(srcs, t)
    IN  <<RetainRelevant(decayed, threshold), decayed>>

\* The instant the twice-read entry was activated, and the elapsed times it
\* is read at: whole seconds and the last millisecond before the next.
DecayActivatedAt == 1500
DecayElapsed ==
    {1000 * k + off : k \in 0..MaxElapsedSecs, off \in {0, 999}}

DecayInit ==
    /\ decayArgs \in {a \in [activated_at : {DecayActivatedAt},
                             t1 : {DecayActivatedAt + e : e \in DecayElapsed},
                             t2 : {DecayActivatedAt + e : e \in DecayElapsed}] :
                        a.t1 <= a.t2}
    /\ decayResult = None

DecayIdle ==
    /\ decayArgs = [activated_at |-> 0, t1 |-> 0, t2 |-> 0]
    /\ decayResult = None

\* Two reads of one entry, each through apply_decay_internal.
DecayRead ==
    /\ decayResult = None
    /\ LET entry == ActiveSourceEntry("Webpage", "w1", None,
                                      decayArgs.activated_at, F32_ONE)
           first == apply_decay_internal(<<entry>>, decayArgs.t1)
           second == apply_decay_internal(first, decayArgs.t2)
       IN  decayResult' = Some(<<first[1].relevance, second[1].relevance>>)
    /\ UNCHANGED <<decayArgs, notDecay>>

TrackerCallIdle == deactivated = None

\* chrono::Utc::now() read later returns a later time.
Tick ==
    /\ now < MaxTicks * TickMs
    /\ now' = now + TickMs
    /\ provenance' = None
    /\ deactivated' = None
    /\ evicted' = None
    /\ UNCHANGED <<sources, source_links, linked_sources, lpc, llocal, nextUuid,
                   snapshots, linkCalls, trackerOps, notLinkNorCall>>

activate_source ==
    \E a \in SourceArgs :
        /\ trackerOps < MaxTrackerOps
        /\ sources' = ActivateSource(sources, a[1], a[2], a[3], now)
        /\ evicted' = Evicted(sources, a[2], now)
        /\ trackerOps' = trackerOps + 1
        /\ provenance' = None
        /\ deactivated' = None
        /\ UNCHANGED <<now, source_links, linked_sources, lpc, llocal, nextUuid,
                       snapshots, linkCalls, notLinkNorCall>>

\* A removal of the entry inserted first when the id is present.
deactivate_source_front ==
    \E source_id \in SourceIds :
        /\ trackerOps < MaxTrackerOps
        /\ sources' = IF \E k \in 1..Len(sources) :
                             sources[k].source_id = source_id
                      THEN Tail(sources) ELSE sources
        /\ trackerOps' = trackerOps + 1
        /\ provenance' = None
        /\ evicted' = None
        /\ deactivated' = Some([source_id |-> source_id, before |-> sources])
        /\ UNCHANGED <<now, source_links, linked_sources, lpc, llocal, nextUuid,
                       snapshots, linkCalls, notLinkNorCall>>

\* Lines 66-69: retain(|s| s.source_id != source_id).
deactivate_source ==
    \E source_id \in SourceIds :
        /\ trackerOps < MaxTrackerOps
        /\ sources' = SelectSeq(sources, LAMBDA s : s.source_id # source_id)
        /\ trackerOps' = trackerOps + 1
        /\ provenance' = None
        /\ evicted' = None
        /\ deactivated' = Some([source_id |-> source_id, before |-> sources])
        /\ UNCHANGED <<now, source_links, linked_sources, lpc, llocal, nextUuid,
                       snapshots, linkCalls, notLinkNorCall>>

get_active_sources ==
    /\ trackerOps < MaxTrackerOps
    /\ sources' = GetActiveSources(sources, None, now)[2]
    /\ trackerOps' = trackerOps + 1
    /\ provenance' = None
    /\ deactivated' = None
    /\ evicted' = None
    /\ UNCHANGED <<now, source_links, linked_sources, lpc, llocal, nextUuid,
                   snapshots, linkCalls, notLinkNorCall>>

apply_decay ==
    /\ trackerOps < MaxTrackerOps
    /\ sources' = RetainRelevant(apply_decay_internal(sources, now),
                                 MIN_RELEVANCE_THRESHOLD)
    /\ trackerOps' = trackerOps + 1
    /\ provenance' = None
    /\ deactivated' = None
    /\ evicted' = None
    /\ UNCHANGED <<now, source_links, linked_sources, lpc, llocal, nextUuid,
                   snapshots, linkCalls, notLinkNorCall>>

\* ---------------------------------------------------------------------
\* Database: source_links / linked_sources     capture/storage.rs:563-670
\* ---------------------------------------------------------------------

\* The SourceLink fields the linker computes (section_path, content_hash and
\* content_preview are copied or derived from the input and read by nothing
\* here).
SourceLink(id, doc_id, created_at, confidence_score) ==
    [id |-> id, doc_id |-> doc_id, created_at |-> created_at,
     confidence_score |-> confidence_score]

LinkedSource(id, link_id, source_type, source_id, contribution_type, timestamp) ==
    [id |-> id, link_id |-> link_id, source_type |-> source_type,
     source_id |-> source_id, contribution_type |-> contribution_type,
     timestamp |-> timestamp]

SourceLinkWithSources(link, srcs) == [link |-> link, sources |-> srcs]

\* The table after the INSERT of create_source_link succeeded.
Database_create_source_link(table, link) == Append(table, link)

\* The row one INSERT of add_linked_sources writes: enums through as_str.
LinkedSourceRow(source) ==
    [source EXCEPT !.source_type = SourceType_as_str(source.source_type),
                   !.contribution_type =
                       ContributionType_as_str(source.contribution_type)]

\* The table after the first `written` INSERTs of add_linked_sources
\* succeeded (each INSERT commits on its own: there is no transaction).
Database_add_linked_sources(table, srcs, written) ==
    table \o [k \in 1..written |-> LinkedSourceRow(srcs[k])]

\* FOREIGN KEY (link_id) REFERENCES source_links(id): an INSERT into
\* linked_sources succeeds only while its link exists.
LinkExists(links, link_id) ==
    \E j \in 1..Len(links) : links[j].id = link_id

\* Variant of the deletion that leaves the LinkedSources of the link behind.
DeleteSourceLink_no_cascade(links, linked, link_id) ==
    <<SelectSeq(links, LAMBDA r : r.id # link_id), linked>>

\* DELETE FROM source_links WHERE id = ?1, with the ON DELETE CASCADE of
\* linked_sources.link_id: <<source_links, linked_sources>> afterwards.
DeleteSourceLink(links, linked, link_id) ==
    <<SelectSeq(links, LAMBDA r : r.id # link_id),
      SelectSeq(linked, LAMBDA r : r.link_id # link_id)>>

\* The LinkedSource a row is read back as: enums through from_str.
LinkedSourceFromRow(row) ==
    [row EXCEPT !.source_type = SourceType_from_str(row.source_type),
                !.contribution_type =
                    ContributionType_from_str(row.contribution_type)]

\* SELECT ... FROM linked_sources WHERE link_id = ?1.
LinkedSourcesOf(table, link_id) ==
    LET rows == SelectSeq(table, LAMBDA r : r.link_id = link_id)
    IN  [k \in 1..Len(rows) |-> LinkedSourceFromRow(rows[k])]

\* The orders ORDER BY created_at DESC may return rows in (ties in any order).
OrdersByCreatedAtDesc(rows) ==
    {f \in [1..Len(rows) -> 1..Len(rows)] :
        /\ \A i, j \in 1..Len(rows) : i # j => f[i] # f[j]
        /\ \A i, j \in 1..Len(rows) :
              i < j => rows[f[i]].created_at >= rows[f[j]].created_at}

\* The results get_document_source_links(doc_id) can return (confidence_score
\* is stored as REAL: an f32 widened to f64 and narrowed back is unchanged).
Database_get_document_source_links(links, linked, doc_id) ==
    LET rows == SelectSeq(links, LAMBDA r : r.doc_id = doc_id)
    IN  { [k \in 1..Len(rows) |->
              SourceLinkWithSources(rows[f[k]],
                                    LinkedSourcesOf(linked, rows[f[k]].id))] :
          f \in OrdersByCreatedAtDesc(rows) }

\* ---------------------------------------------------------------------
\* SourceLinker                           capture/source_link.rs:136-218
\* ---------------------------------------------------------------------

\* The callers of create_source_link, each making one call in a run, and the
\* documents they write to.
LinkThreads == {1}
DocIds == {"d1"}

\* A confidence that forgets to divide by the number of sources.
confidence_score_undivided(active_sources) ==
    F32Sum([k \in 1..Len(active_sources) |-> active_sources[k].relevance])

\* Lines 175-176.
confidence_score(active_sources) ==
    F32Div(F32Sum([k \in 1..Len(active_sources) |-> active_sources[k].relevance]),
           Len(active_sources))

\* An orphan link that keeps full confidence.
OrphanLink_confident(id, doc_id, created_at) ==
    SourceLink(id, doc_id, created_at, F32_ONE)

\* Lines 156-164.
OrphanLink(id, doc_id, created_at) == SourceLink(id, doc_id, created_at, 0)

\* Lines 192-204: the LinkedSource vector, ids minted from first_id on.
BuildLinkedSources(active_sources, link, first_id, t) ==
    [k \in 1..Len(active_sources) |->
        LinkedSource(first_id + k - 1, link.id,
                     active_sources[k].source_type,
                     active_sources[k].source_id,
                     infer_contribution_type(active_sources[k].source_type,
                                             active_sources[k].relevance),
                     t)]

LinkIdleLocal ==
    [doc_id |-> "", now |-> 0, active_sources |-> <<>>, link |-> None,
     sources |-> <<>>]

LinkInit ==
    /\ now = 0
    /\ sources = ActiveSourceTracker_new
    /\ source_links = <<>>
    /\ linked_sources = <<>>
    /\ lpc = [t \in LinkThreads |-> "idle"]
    /\ llocal = [t \in LinkThreads |-> LinkIdleLocal]
    /\ nextUuid = 1
    /\ snapshots = <<>>
    /\ provenance = None
    /\ evicted = None
    /\ linkCalls = 0
    /\ trackerOps = 0

\* The instants of the clock.
TrackerInstants == {k * TickMs : k \in 0..MaxTicks}

\* The entries a tracker can hold at time t when its last read (get_active_sources,
\* apply_decay or an eviction) was at time read, -1 for none: every entry
\* activated by then holds its relevance of that read, a later one holds 1.0.
TrackerEntries(t, read) ==
    { ActiveSourceEntry(a[1], a[2], a[3], at,
                        IF at <= read THEN DecayedRelevance(at, read)
                        ELSE F32_ONE) :
        a \in SourceArgs, at \in {i \in TrackerInstants : i <= t} }

\* The trackers callers have built by time t: up to MAX_ACTIVE_SOURCES
\* entries with distinct source_id.
TrackerStates(t) ==
    UNION { UNION { { srcs \in [1..n -> TrackerEntries(t, read)] :
                        \A j, k \in 1..n :
                            srcs[j].source_id = srcs[k].source_id => j = k } :
                    n \in 0..MAX_ACTIVE_SOURCES } :
            read \in {-1} \cup {i \in TrackerInstants : i <= t} }

\* A tracker in use for some time, no create_source_link call to come.
TrackerInit ==
    /\ now \in TrackerInstants
    /\ sources \in TrackerStates(now)
    /\ source_links = <<>>
    /\ linked_sources = <<>>
    /\ lpc = [t \in LinkThreads |-> "idle"]
    /\ llocal = [t \in LinkThreads |-> LinkIdleLocal]
    /\ nextUuid = 1
    /\ snapshots = <<>>
    /\ provenance = None
    /\ evicted = None
    /\ linkCalls = Cardinality(LinkThreads)
    /\ trackerOps = 0

\* Line 149: the call reads the clock.
create_source_link_begin(t) ==
    /\ lpc[t] = "idle"
    /\ linkCalls < Cardinality(LinkThreads)
    /\ \E doc_id \in DocIds :
          llocal' = [llocal EXCEPT ![t] =
                        [LinkIdleLocal EXCEPT !.doc_id = doc_id, !.now = now]]
    /\ lpc' = [lpc EXCEPT ![t] = "get_active_sources"]
    /\ linkCalls' = linkCalls + 1
    /\ provenance' = None
    /\ evicted' = None
    /\ UNCHANGED <<now, sources, source_links, linked_sources, nextUuid,
                   snapshots, trackerOps, notLink>>

\* Lines 152-187: the snapshot under the tracker mutex, then the link built
\* from it.
create_source_link_snapshot(t) ==
    /\ lpc[t] = "get_active_sources"
    /\ LET got == GetActiveSources(sources, Some(MIN_RELEVANCE_THRESHOLD), now)
           active_sources == got[1]
           link == IF active_sources = <<>>
                   THEN OrphanLink(nextUuid, llocal[t].doc_id, llocal[t].now)
                   ELSE SourceLink(nextUuid, llocal[t].doc_id, llocal[t].now,
                                   confidence_score(active_sources))
       IN  /\ sources' = got[2]
           /\ llocal' = [llocal EXCEPT ![t].active_sources = active_sources,
                                       ![t].link = Some(link)]
           /\ snapshots' = snapshots @@
                 (nextUuid :> [held |-> sources, at |-> now,
                               active_sources |-> active_sources,
                               outcome |-> "running", returned |-> None])
    /\ nextUuid' = nextUuid + 1
    /\ lpc' = [lpc EXCEPT ![t] = "create_source_link"]
    /\ provenance' = None
    /\ evicted' = None
    /\ UNCHANGED <<now, source_links, linked_sources, linkCalls, trackerOps,
                   notLink>>

\* Lines 166-171 and 189-204: the INSERT of the link.  If it fails the call
\* returns the error; if it succeeds the orphan call returns the link with no
\* sources and the other builds its LinkedSource vector.
create_source_link_insert(t) ==
    /\ lpc[t] = "create_source_link"
    /\ LET link == llocal[t].link[1]
           active_sources == llocal[t].active_sources
       IN  \E ok \in BOOLEAN :
              IF ~ok
              THEN /\ snapshots' = [snapshots EXCEPT ![link.id].outcome = "Err"]
                   /\ lpc' = [lpc EXCEPT ![t] = "idle"]
                   /\ llocal' = [llocal EXCEPT ![t] = LinkIdleLocal]
                   /\ UNCHANGED <<source_links, nextUuid>>
              ELSE /\ source_links' =
                         Database_create_source_link(source_links, link)
                   /\ IF active_sources = <<>>
                      THEN /\ snapshots' = [snapshots EXCEPT
                                 ![link.id].outcome = "Ok",
                                 ![link.id].returned =
                                     Some(SourceLinkWithSources(link, <<>>))]
                           /\ lpc' = [lpc EXCEPT ![t] = "idle"]
                           /\ llocal' = [llocal EXCEPT ![t] = LinkIdleLocal]
                           /\ UNCHANGED nextUuid
                      ELSE /\ llocal' = [llocal EXCEPT ![t].sources =
                                 BuildLinkedSources(active_sources, link,
                                                    nextUuid, llocal[t].now)]
                           /\ nextUuid' = nextUuid + Len(active_sources)
                           /\ lpc' = [lpc EXCEPT ![t] = "add_linked_sources"]
                           /\ UNCHANGED snapshots
    /\ provenance' = None
    /\ evicted' = None
    /\ UNCHANGED <<now, sources, linked_sources, linkCalls, trackerOps, notLink>>

\* Lines 206-211: the INSERTs of the LinkedSources, any of which may fail and
\* end the call with the error; after the last the call returns the link with
\* its sources.
create_source_link_add(t) ==
    /\ lpc[t] = "add_linked_sources"
    /\ LET link == llocal[t].link[1]
           srcs == llocal[t].sources
       IN  \E written \in 0..(IF LinkExists(source_links, link.id)
                               THEN Len(srcs) ELSE 0) :
              /\ linked_sources' =
                    Database_add_linked_sources(linked_sources, srcs, written)
              /\ snapshots' =
                    IF written = Len(srcs)
                    THEN [snapshots EXCEPT
                             ![link.id].outcome = "Ok",
                             ![link.id].returned =
                                 Some(SourceLinkWithSources(link, srcs))]
                    ELSE [snapshots EXCEPT ![link.id].outcome = "Err"]
    /\ lpc' = [lpc EXCEPT ![t] = "idle"]
    /\ llocal' = [llocal EXCEPT ![t] = LinkIdleLocal]
    /\ provenance' = None
    /\ evicted' = None
    /\ UNCHANGED <<now, sources, source_links, nextUuid, linkCalls, trackerOps,
                   notLink>>

\* Lines 215-217 with storage.rs:613-670, one read under the connection mutex
\* (which may fail to lock).
get_document_provenance ==
    \E doc_id \in DocIds, ok \in BOOLEAN :
        /\ \E result \in Database_get_document_source_links(
                             source_links, linked_sources, doc_id) :
              provenance' = Some([doc_id |-> doc_id, ok |-> ok,
                                  result |-> IF ok THEN result ELSE <<>>])
        /\ evicted' = None
        /\ UNCHANGED <<now, sources, source_links, linked_sources, lpc, llocal,
                       nextUuid, snapshots, linkCalls, trackerOps, notLink>>

\* ---------------------------------------------------------------------
\* EventBuffer                                   workstream/buffer.rs:1-222
\* ---------------------------------------------------------------------

\* Events the buffer holds before its push asks for a flush (100 in the code).
MAX_BUFFER_SIZE == 3
MIN_EVENTS_FOR_BLOCK == 2
\* Line 100: .take(5).
MAX_RESEARCH_URLS == 5

\* Number of events callers build in one run.
MaxEventPushes == 4
\* Number of flush and clear calls in one run.
MaxEventOps == 2

ContextType == {"Document", "Task", "Browser", "Manual", "Mixed"}
EventType == {"Edit", "Browse", "Search", "Tool", "Focus", "Blur", "Save"}

\* What a caller puts into an event (EventInput without delta, which the
\* buffer never reads).
EventInput(event_type, context_type, context_id, context_title, url) ==
    [event_type |-> event_type, context_type |-> context_type,
     context_id |-> context_id, context_title |-> context_title, url |-> url]

EventInputs ==
    { EventInput("Edit", "Document", Some("doc1"), Some("Q3 Proposal"), None),
      EventInput("Edit", "Document", Some("doc2"), Some("Notes"), None),
      EventInput("Browse", "Document", Some("doc1"), None, Some("u1")),
      EventInput("Browse", "Document", Some("doc1"), None, Some("u2")),
      EventInput("Save", "Document", Some("doc1"), Some("Q3 Proposal"), None),
      EventInput("Focus", "Browser", None, None, None) }

\* The events of concurrent callers.
ConcEventInputs ==
    { EventInput("Edit", "Document", Some("doc1"), Some("Q3 Proposal"), None),
      EventInput("Edit", "Document", Some("doc2"), Some("Notes"), None) }

\* The clock reading the caller stamps the n-th event with.
EventTimestamp(n) == 1000 + 700 * n

BufferedEvent(id, timestamp, input) ==
    [id |-> id, timestamp |-> timestamp, event_type |-> input.event_type,
     context_type |-> input.context_type, context_id |-> input.context_id,
     context_title |-> input.context_title, url |-> input.url]

EventBuffer_new ==
    /\ events = <<>>
    /\ current_context = None

\* A comparison of the context types only.
ContextSwitched_by_type(current_ctx, event) ==
    IF current_ctx # None
    THEN event.context_type # current_ctx[1][1]
    ELSE FALSE

\* Lines 31-35.
ContextSwitched(current_ctx, event) ==
    IF current_ctx # None
    THEN event.context_type # current_ctx[1][1] \/ event.context_id # current_ctx[1][2]
    ELSE FALSE

\* Lines 44-50: the BufferPushResult, from the events after the push_back.
BufferPushResult(evs, context_switched) ==
    [should_flush |-> Len(evs) >= MAX_BUFFER_SIZE \/ context_switched,
     context_switched |-> context_switched,
     event_count |-> Len(evs)]

\* .filter(|e| e.event_type == t).count()
CountOf(evs, t) == Cardinality({k \in 1..Len(evs) : evs[k].event_type = t})

Plural(n) == IF n > 1 THEN "s" ELSE ""

\* parts.join(", ")
RECURSIVE JoinFrom(_, _)
JoinFrom(parts, k) ==
    IF k > Len(parts) THEN ""
    ELSE (IF k > 1 THEN ", " ELSE "") \o parts[k] \o JoinFrom(parts, k + 1)

Join(parts) == JoinFrom(parts, 1)

\* Lines 174-222.
generate_local_summary(evs, context_title) ==
    LET edit_count == CountOf(evs, "Edit")
        browse_count == CountOf(evs, "Browse")
        search_count == CountOf(evs, "Search")
        tool_count == CountOf(evs, "Tool")
        save_count == CountOf(evs, "Save")
        title == IF context_title = None THEN "document" ELSE context_title[1]
        primary ==
            IF edit_count > 0
            THEN IF save_count > 0
                 THEN << "Edited and saved " \o title >>
                 ELSE << "Edited " \o title >>
            ELSE <<>>
        research ==
            IF browse_count > 0
            THEN IF edit_count > 0
                 THEN primary \o << "with " \o ToString(browse_count) \o " site"
                                    \o Plural(browse_count) \o " researched" >>
                 ELSE primary \o << "Browsed " \o ToString(browse_count)
                                    \o " site" \o Plural(browse_count) >>
            ELSE primary
        search ==
            IF search_count > 0 /\ research = <<>>
            THEN research \o << "Searched " \o ToString(search_count) \o " time"
                                \o Plural(search_count) >>
            ELSE research
        parts ==
            IF tool_count > 0
            THEN IF search = <<>>
                 THEN search \o << "Used " \o ToString(tool_count) \o " tool"
                                   \o Plural(tool_count) >>
                 ELSE search \o << "using " \o ToString(tool_count) \o " tool"
                                   \o Plural(tool_count) >>
            ELSE search
    IN  IF parts = <<>> THEN "Brief activity on " \o title ELSE Join(parts)

\* Lines 94-98: the HashSet of the urls of the Browse events.
BrowseUrls(evs) ==
    { evs[k].url[1] : k \in {j \in 1..Len(evs) : /\ evs[j].event_type = "Browse"
                                                  /\ evs[j].url # None} }

\* Lines 99-101: the lists .into_iter().take(5).collect() can give. The
\* iteration order of a std HashSet follows the hashes under the keys of its
\* RandomState, which differ from one set to the next: any order can come out.
ResearchUrlOrders(evs) ==
    LET urls == BrowseUrls(evs)
        n == IF Cardinality(urls) < MAX_RESEARCH_URLS THEN Cardinality(urls)
             ELSE MAX_RESEARCH_URLS
    IN  { r \in [1..n -> urls] : \A j, k \in 1..n : r[j] = r[k] => j = k }

\* Lines 104-109.
FlushContextType(flushed) ==
    IF \A k \in 1..Len(flushed) : flushed[k].context_type = flushed[1].context_type
    THEN flushed[1].context_type
    ELSE "Mixed"

\* Line 112: find_map over context_title.
FlushContextTitle(flushed) ==
    IF \E k \in 1..Len(flushed) : flushed[k].context_title # None
    THEN flushed[CHOOSE k \in 1..Len(flushed) :
                    /\ flushed[k].context_title # None
                    /\ \A j \in 1..(k - 1) : flushed[j].context_title = None
                ].context_title
    ELSE None

\* Variant that takes ended_at from the first event and counts every event
\* that is not an Edit as a Browse.
FlushResult_first_only(flushed, research_urls) ==
    [events |-> flushed,
     started_at |-> flushed[1].timestamp,
     ended_at |-> flushed[1].timestamp,
     context_type |-> FlushContextType(flushed),
     context_id |-> flushed[1].context_id,
     context_title |-> FlushContextTitle(flushed),
     edit_count |-> CountOf(flushed, "Edit"),
     browse_count |-> Len(flushed) - CountOf(flushed, "Edit"),
     research_urls |-> research_urls,
     auto_summary |-> generate_local_summary(flushed, FlushContextTitle(flushed))]

\* Lines 86-128: the FlushResult for the drained events, research_urls being
\* one of ResearchUrlOrders(flushed).
FlushResult(flushed, research_urls) ==
    [events |-> flushed,
     started_at |-> flushed[1].timestamp,
     ended_at |-> flushed[Len(flushed)].timestamp,
     context_type |-> FlushContextType(flushed),
     context_id |-> flushed[1].context_id,
     context_title |-> FlushContextTitle(flushed),
     edit_count |-> CountOf(flushed, "Edit"),
     browse_count |-> CountOf(flushed, "Browse"),
     research_urls |-> research_urls,
     auto_summary |-> generate_local_summary(flushed, FlushContextTitle(flushed))]

\* A drain that leaves the newest event in the buffer.
Drain_but_last(evs) ==
    [flushed |-> SubSeq(evs, 1, Len(evs) - 1), rest |-> <<evs[Len(evs)]>>]

\* Line 83: events.drain(..).collect().
Drain(evs) == [flushed |-> evs, rest |-> <<>>]

\* The threads of concurrent callers.
EbThreads == {1, 2}

EventIdleLocal == [op |-> "none", event |-> None]

EventInit ==
    /\ EventBuffer_new
    /\ events_mutex = 0
    /\ context_mutex = 0
    /\ epc = [t \in EbThreads |-> "idle"]
    /\ elocal = [t \in EbThreads |-> EventIdleLocal]
    /\ evPushed = 0
    /\ ebOps = 0
    /\ pushResult = None
    /\ lastFlush = None
    /\ flushedIds = <<>>

\* ----- one caller ----------------------------------------------------

\* Lines 26-51.
EventBuffer_push ==
    \E input \in EventInputs :
        /\ evPushed < MaxEventPushes
        /\ LET event == BufferedEvent(evPushed + 1, EventTimestamp(evPushed + 1),
                                      input)
               context_switched == ContextSwitched(current_context, event)
           IN  /\ current_context' = Some(<<event.context_type, event.context_id>>)
               /\ events' = Append(events, event)
               /\ pushResult' =
                    Some([pre_events |-> events, pre_context |-> current_context,
                          event |-> event,
                          result |-> BufferPushResult(Append(events, event),
                                                      context_switched)])
        /\ evPushed' = evPushed + 1
        /\ lastFlush' = None
        /\ UNCHANGED <<events_mutex, context_mutex, epc, elocal, ebOps, flushedIds,
                       notEvent>>

\* Variant whose flush drains the events and leaves the current context set.
EventBuffer_flush_keeps_context ==
    /\ ebOps < MaxEventOps
    /\ IF Len(events) < MIN_EVENTS_FOR_BLOCK
       THEN /\ lastFlush' = Some([pre_events |-> events,
                                  pre_context |-> current_context,
                                  result |-> None])
            /\ UNCHANGED <<events, current_context>>
       ELSE \E research_urls \in ResearchUrlOrders(Drain(events).flushed) :
              /\ events' = Drain(events).rest
              /\ UNCHANGED current_context
              /\ lastFlush' =
                   Some([pre_events |-> events, pre_context |-> current_context,
                         result |-> Some(FlushResult(Drain(events).flushed,
                                                     research_urls))])
    /\ ebOps' = ebOps + 1
    /\ pushResult' = None
    /\ UNCHANGED <<events_mutex, context_mutex, epc, elocal, evPushed, flushedIds,
                   notEvent>>

\* Lines 74-129.
EventBuffer_flush ==
    /\ ebOps < MaxEventOps
    /\ IF Len(events) < MIN_EVENTS_FOR_BLOCK
       THEN /\ lastFlush' = Some([pre_events |-> events,
                                  pre_context |-> current_context,
                                  result |-> None])
            /\ UNCHANGED <<events, current_context>>
       ELSE \E research_urls \in ResearchUrlOrders(Drain(events).flushed) :
              /\ events' = Drain(events).rest
              /\ current_context' = None
              /\ lastFlush' =
                   Some([pre_events |-> events, pre_context |-> current_context,
                         result |-> Some(FlushResult(Drain(events).flushed,
                                                     research_urls))])
    /\ ebOps' = ebOps + 1
    /\ pushResult' = None
    /\ UNCHANGED <<events_mutex, context_mutex, epc, elocal, evPushed, flushedIds,
                   notEvent>>

\* Lines 132-137.
EventBuffer_clear ==
    /\ ebOps < MaxEventOps
    /\ events' = <<>>
    /\ current_context' = None
    /\ ebOps' = ebOps + 1
    /\ pushResult' = None
    /\ lastFlush' = None
    /\ UNCHANGED <<events_mutex, context_mutex, epc, elocal, evPushed, flushedIds,
                   notEvent>>

\* ----- concurrent callers: one step per lock and one for the rest ----

\* The caller builds its event; line 27: self.events.lock().
push_lock_events(t) ==
    /\ epc[t] = "idle"
    /\ evPushed < MaxEventPushes
    /\ events_mutex = 0
    /\ events_mutex' = t
    /\ \E input \in ConcEventInputs :
          elocal' = [elocal EXCEPT ![t] =
                        [op |-> "push",
                         event |-> Some(BufferedEvent(evPushed + 1,
                                                      EventTimestamp(evPushed + 1),
                                                      input))]]
    /\ evPushed' = evPushed + 1
    /\ epc' = [epc EXCEPT ![t] = "push_lock_context"]
    /\ UNCHANGED <<events, current_context, context_mutex, ebOps, pushResult,
                   lastFlush, flushedIds, notEvent>>

\* Line 28: self.current_context.lock().
push_lock_context(t) ==
    /\ epc[t] = "push_lock_context"
    /\ context_mutex = 0
    /\ context_mutex' = t
    /\ epc' = [epc EXCEPT ![t] = "push_body"]
    /\ UNCHANGED <<events, current_context, events_mutex, elocal, evPushed, ebOps,
                   pushResult, lastFlush, flushedIds, notEvent>>

\* Lines 31-51, both guards dropped at the return.
push_body(t) ==
    /\ epc[t] = "push_body"
    /\ LET event == elocal[t].event[1]
           context_switched == ContextSwitched(current_context, event)
       IN  /\ current_context' = Some(<<event.context_type, event.context_id>>)
           /\ events' = Append(events, event)
           /\ pushResult' =
                Some([pre_events |-> events, pre_context |-> current_context,
                      event |-> event,
                      result |-> BufferPushResult(Append(events, event),
                                                  context_switched)])
    /\ lastFlush' = None
    /\ events_mutex' = 0
    /\ context_mutex' = 0
    /\ elocal' = [elocal EXCEPT ![t] = EventIdleLocal]
    /\ epc' = [epc EXCEPT ![t] = "idle"]
    /\ UNCHANGED <<evPushed, ebOps, flushedIds, notEvent>>

\* Line 75: self.events.lock().
flush_lock_events(t) ==
    /\ epc[t] = "idle"
    /\ ebOps < MaxEventOps
    /\ events_mutex = 0
    /\ events_mutex' = t
    /\ elocal' = [elocal EXCEPT ![t] = [op |-> "flush", event |-> None]]
    /\ ebOps' = ebOps + 1
    /\ epc' = [epc EXCEPT ![t] = "flush_lock_context"]
    /\ UNCHANGED <<events, current_context, context_mutex, evPushed, pushResult,
                   lastFlush, flushedIds, notEvent>>

\* Line 76: self.current_context.lock().
flush_lock_context(t) ==
    /\ epc[t] = "flush_lock_context"
    /\ context_mutex = 0
    /\ context_mutex' = t
    /\ epc' = [epc EXCEPT ![t] = "flush_body"]
    /\ UNCHANGED <<events, current_context, events_mutex, elocal, evPushed, ebOps,
                   pushResult, lastFlush, flushedIds, notEvent>>

\* Lines 78-129, both guards dropped at either return.
flush_body(t) ==
    /\ epc[t] = "flush_body"
    /\ IF Len(events) < MIN_EVENTS_FOR_BLOCK
       THEN /\ lastFlush' = Some([pre_events |-> events,
                                  pre_context |-> current_context,
                                  result |-> None])
            /\ UNCHANGED <<events, current_context, flushedIds>>
       ELSE \E research_urls \in ResearchUrlOrders(Drain(events).flushed) :
              /\ events' = Drain(events).rest
              /\ current_context' = None
              /\ lastFlush' =
                   Some([pre_events |-> events, pre_context |-> current_context,
                         result |-> Some(FlushResult(Drain(events).flushed,
                                                     research_urls))])
              /\ flushedIds' =
                   flushedIds \o [k \in 1..Len(Drain(events).flushed) |->
                                     Drain(events).flushed[k].id]
    /\ pushResult' = None
    /\ events_mutex' = 0
    /\ context_mutex' = 0
    /\ elocal' = [elocal EXCEPT ![t] = EventIdleLocal]
    /\ epc' = [epc EXCEPT ![t] = "idle"]
    /\ UNCHANGED <<evPushed, ebOps, notEvent>>

\* ----- generate_local_summary on its own ------------------------------

\* Largest number of events of one type in a summarised sequence.
MaxTypeCount == 2

SummaryTitles == {None, Some("Q3 Proposal")}

\* The counted event types, in the order the events are laid out.
SummaryTypes == <<"Edit", "Browse", "Search", "Tool", "Save", "Focus">>

\* A sequence of events with counts[k] events of the k-th type.
RECURSIVE SummaryEventsFrom(_, _)
SummaryEventsFrom(counts, k) ==
    IF k > Len(SummaryTypes) THEN <<>>
    ELSE [j \in 1..counts[k] |->
             BufferedEvent(0, 0, EventInput(SummaryTypes[k], "Document",
                                            Some("doc1"), None, None))]
         \o SummaryEventsFrom(counts, k + 1)

SummaryEvents(counts) == SummaryEventsFrom(counts, 1)

SummaryInit ==
    /\ summaryArgs \in [counts : [1..Len(SummaryTypes) -> 0..MaxTypeCount],
                        title : SummaryTitles]
    /\ summaryResult = None

SummaryIdle ==
    /\ summaryArgs = [counts |-> [k \in 1..Len(SummaryTypes) |-> 0], title |-> None]
    /\ summaryResult = None

SummaryApply ==
    /\ summaryResult = None
    /\ summaryResult' = Some(generate_local_summary(SummaryEvents(summaryArgs.counts),
                                                    summaryArgs.title))
    /\ UNCHANGED <<summaryArgs, notSummary>>

\* ---------------------------------------------------------------------
\* work_blocks                               workstream/storage.rs:101-210
\* ---------------------------------------------------------------------

\* Number of create_ws_block / create_manual_block calls in one run.
MaxBlocks == 2

\* The started_at / ended_at values callers pass, in milliseconds.
BlockTimes == {1000, 1700, 4500}

\* i64 division, which truncates towards zero.
TruncDiv(a, b) == IF a >= 0 THEN a \div b ELSE 0 - ((0 - a) \div b)

\* Lines 105 and 162; the values of the model fit the i32 of the cast.
DurationSecs(started_at, ended_at) == TruncDiv(ended_at - started_at, 1000)

\* The columns of a work_blocks row that the two INSERTs compute or copy from
\* the times of their input.
WorkBlockRow(id, context_type, started_at, ended_at, is_manual) ==
    [id |-> id, context_type |-> context_type, started_at |-> started_at,
     ended_at |-> ended_at,
     duration_secs |-> DurationSecs(started_at, ended_at),
     is_pinned |-> FALSE,
     is_manual |-> is_manual]

BlockInit ==
    /\ work_blocks = <<>>
    /\ blockCalls = 0
    /\ blockNow = 5000
    /\ blockResult = None

\* Lines 101-155, with a CreateBlockInput whose times are those of a flush
\* result: the timestamps of its first and last event, the last not earlier.
\* The INSERT can fail, and then no row is written.
create_ws_block ==
    \E started_at \in BlockTimes, ended_at \in BlockTimes, ok \in BOOLEAN :
        /\ blockCalls < MaxBlocks
        /\ started_at <= ended_at
        /\ work_blocks' =
             IF ok
             THEN Append(work_blocks,
                         WorkBlockRow(blockCalls + 1, "document", started_at,
                                      ended_at, FALSE))
             ELSE work_blocks
        /\ blockCalls' = blockCalls + 1
        /\ blockResult' = None
        /\ UNCHANGED blockNow
        /\ UNCHANGED notBlock

\* Lines 158-210, with the times of the ManualBlockInput as the user entered
\* them.
create_manual_block ==
    \E started_at \in BlockTimes, ended_at \in BlockTimes, ok \in BOOLEAN :
        /\ blockCalls < MaxBlocks
        /\ work_blocks' =
             IF ok
             THEN Append(work_blocks,
                         WorkBlockRow(blockCalls + 1, "manual", started_at,
                                      ended_at, TRUE))
             ELSE work_blocks
        /\ blockCalls' = blockCalls + 1
        /\ blockResult' = None
        /\ UNCHANGED blockNow
        /\ UNCHANGED notBlock

\* Instants the clock of the work_blocks table is sampled at.
BlockInstants ==
    {5000, WORK_BLOCK_TTL_MS + 1700, WORK_BLOCK_TTL_MS + 1701,
     WORK_BLOCK_TTL_MS + 5000}

BlockTick ==
    /\ \E t \in BlockInstants :
        /\ t > blockNow
        /\ blockNow' = t
    /\ blockResult' = None
    /\ UNCHANGED <<work_blocks, blockCalls>>
    /\ UNCHANGED notBlock

\* An UpdateBlockInput: texts is how many of user_summary, notes and tags it
\* sets, is_pinned the flag it sets, if any.
UpdateBlockInputs ==
    [texts : {0, 1}, is_pinned : {None, Some(TRUE), Some(FALSE)}]

\* Lines 218-242: the index of the placeholder of the id, which is also the
\* highest placeholder of the statement (the is_pinned placeholder takes the
\* same index, its increment being left out).
UpdateParamIdx(input) == 2 + input.texts

\* Lines 245-259: the number of values bound.
UpdateParamCount(input) ==
    1 + input.texts + (IF input.is_pinned # None THEN 1 ELSE 0) + 1

\* rusqlite refuses to execute a statement with another number of values than
\* it has placeholders.
UpdateExecutes(input) == UpdateParamCount(input) = UpdateParamIdx(input)

\* The UPDATE of line 239 on the modelled columns.
UpdateRow(row, input) ==
    IF input.is_pinned = None THEN row
    ELSE [row EXCEPT !.is_pinned = input.is_pinned[1]]

update_work_block ==
    /\ \E k \in 1..Len(work_blocks), input \in UpdateBlockInputs :
        /\ work_blocks' =
             IF UpdateExecutes(input)
             THEN [work_blocks EXCEPT ![k] = UpdateRow(@, input)]
             ELSE work_blocks
        /\ blockResult' =
             Some([op |-> "update", before |-> work_blocks,
                   value |-> IF UpdateExecutes(input) THEN "Ok" ELSE "Err"])
    /\ UNCHANGED <<blockCalls, blockNow>>
    /\ UNCHANGED notBlock

\* Line 349: DELETE FROM work_blocks WHERE id = ?1.
delete_work_block ==
    /\ \E k \in 1..Len(work_blocks) :
        /\ work_blocks' =
             SubSeq(work_blocks, 1, k - 1)
                 \o SubSeq(work_blocks, k + 1, Len(work_blocks))
        /\ blockResult' =
             Some([op |-> "delete", before |-> work_blocks, value |-> "Ok"])
    /\ UNCHANGED <<blockCalls, blockNow>>
    /\ UNCHANGED notBlock

\* Variant of the cleanup test that spares manual blocks.
ExpiredBlock_auto_only(row, t) ==
    /\ row.ended_at < t - WORK_BLOCK_TTL_MS
    /\ ~row.is_pinned
    /\ ~row.is_manual

\* The WHERE clause of the DELETE of cleanup_workstream.
ExpiredBlock(row, t) ==
    /\ row.ended_at < t - WORK_BLOCK_TTL_MS
    /\ ~row.is_pinned

cleanup_workstream ==
    /\ IF blockResult = None THEN TRUE ELSE blockResult[1].op # "cleanup"
    /\ LET Kept(row) == ~ExpiredBlock(row, blockNow)
       IN  /\ work_blocks' = SelectSeq(work_blocks, Kept)
           /\ blockResult' =
                Some([op |-> "cleanup", before |-> work_blocks,
                      value |-> "Ok"])
    /\ UNCHANGED <<blockCalls, blockNow>>
    /\ UNCHANGED notBlock

\* ---------------------------------------------------------------------
\* Text                                  std String, capture/types.rs
\* ---------------------------------------------------------------------

\* A text is a sequence of characters; a character is <<width, name>>, the
\* width being the number of bytes of its UTF-8 encoding.
CharA == <<1, "a">>
CharB == <<1, "b">>
CharEAcute == <<2, "e-acute">>
CharEuro == <<3, "euro">>

RECURSIVE ByteLen(_)
\* str::len: the length in bytes.
ByteLen(text) == IF text = <<>> THEN 0 ELSE text[1][1] + ByteLen(Tail(text))

\* str::chars().count(): the length in characters.
CharCount(text) == Len(text)

\* ---------------------------------------------------------------------
\* content_store                        capture/storage.rs:209-252, 746-760
\* ---------------------------------------------------------------------

\* One day and the instants the clock is sampled at (30 days is the TTL).
Day == 86400
ContentInstants == {0, Day, 30 * Day, 30 * Day + 1, 31 * Day}

ContentDigests == {"h1", "h2"}
\* (hash, content, content_type) triples callers store.
StoreInputs ==
    { <<"h1", <<CharEAcute, CharA>>, "text">>,
      <<"h1", <<CharB>>, "html">>,
      <<"h2", <<CharB>>, "text">> }

\* Variant of the inserted row that records the length in characters.
ContentRow_chars(content, content_type, t) ==
    [ content |-> content, content_type |-> content_type,
      byte_size |-> CharCount(content), created_at |-> t,
      last_accessed_at |-> t, access_count |-> 1 ]

\* The row INSERTed by store_content for a new hash.
ContentRow(content, content_type, t) ==
    [ content |-> content, content_type |-> content_type,
      byte_size |-> ByteLen(content), created_at |-> t,
      last_accessed_at |-> t, access_count |-> 1 ]

\* Variant of the bump that leaves last_accessed_at alone.
BumpAccess_stale(store, hash, t) ==
    IF hash \in DOMAIN store
    THEN [store EXCEPT ![hash].access_count = @ + 1]
    ELSE store

\* UPDATE content_store SET last_accessed_at = ?1, access_count =
\* access_count + 1 WHERE hash = ?2 (touches nothing when the hash is absent).
BumpAccess(store, hash, t) ==
    IF hash \in DOMAIN store
    THEN [store EXCEPT ![hash].last_accessed_at = t,
                       ![hash].access_count = @ + 1]
    ELSE store

\* Variant of the cleanup test that drops every entry past the TTL.
Expired_any_count(row, t) ==
    row.last_accessed_at < t - CONTENT_TTL_MS

\* The WHERE clause of cleanup_capture_content.
Expired(row, t) ==
    /\ row.last_accessed_at < t - CONTENT_TTL_MS
    /\ row.access_count < MIN_ACCESS_COUNT_TO_KEEP

\* A function restricted to the keys in ks.
Restrict(f, ks) == [k \in ks |-> f[k]]

ContentInit ==
    /\ content_store = <<>>
    /\ contentNow = 0
    /\ contentOps = 0
    /\ contentResult = None
    /\ firstStored = <<>>

ContentIdle == ContentInit

\* The clock advances between calls.
ContentTick ==
    /\ \E t \in ContentInstants :
        /\ t > contentNow
        /\ contentNow' = t
    /\ contentResult' = None
    /\ UNCHANGED <<content_store, contentOps, firstStored>>
    /\ UNCHANGED notContent

store_content ==
    /\ contentOps < MaxContentOps
    /\ \E a \in StoreInputs :
        LET updated == BumpAccess(content_store, a[1], contentNow)
            present == a[1] \in DOMAIN content_store
        IN  /\ content_store' =
                 IF present THEN updated
                 ELSE (a[1] :> ContentRow(a[2], a[3], contentNow)) @@ content_store
            /\ firstStored' =
                 IF present THEN firstStored ELSE (a[1] :> a[2]) @@ firstStored
            /\ contentResult' =
                 Some([op |-> "store", hash |-> a[1], content |-> a[2],
                       content_type |-> a[3], before |-> content_store,
                       value |-> None])
    /\ contentOps' = contentOps + 1
    /\ UNCHANGED contentNow
    /\ UNCHANGED notContent

get_content ==
    /\ contentOps < MaxContentOps
    /\ \E hash \in ContentDigests :
        LET updated == BumpAccess(content_store, hash, contentNow)
        IN  /\ content_store' = updated
            /\ contentResult' =
                 Some([op |-> "get", hash |-> hash, content |-> <<>>,
                       content_type |-> "", before |-> content_store,
                       value |-> IF hash \in DOMAIN updated
                                 THEN Some(updated[hash].content) ELSE None])
    /\ contentOps' = contentOps + 1
    /\ UNCHANGED <<contentNow, firstStored>>
    /\ UNCHANGED notContent

cleanup_capture_content ==
    /\ IF contentResult = None THEN TRUE ELSE contentResult[1].op # "cleanup"
    /\ LET kept == {h \in DOMAIN content_store :
                        ~Expired(content_store[h], contentNow)}
       IN  /\ content_store' = Restrict(content_store, kept)
           /\ firstStored' = Restrict(firstStored, kept)
           /\ contentResult' =
                Some([op |-> "cleanup", hash |-> "", content |-> <<>>,
                      content_type |-> "", before |-> content_store,
                      value |-> Some(Cardinality(DOMAIN content_store)
                                      - Cardinality(kept))])
    /\ UNCHANGED <<contentNow, contentOps>>
    /\ UNCHANGED notContent

\* ---------------------------------------------------------------------
\* CaptureConfig and the source-link tables in use
\*                       capture/types.rs:225-247, capture/storage.rs:154-192
\* ---------------------------------------------------------------------

\* CaptureConfig::default(), lines 236-247.
CaptureConfig_default ==
    [clipboard_enabled |-> TRUE, source_linking_enabled |-> TRUE]

ConfigIdle == capture_config = CaptureConfig_default

\* The configurations get_capture_config can load at startup, as far as
\* the SourceLinker and the sampler are concerned.
LinkConfigInit ==
    capture_config \in [clipboard_enabled : {TRUE},
                        source_linking_enabled : BOOLEAN]
SamplerConfigInit ==
    capture_config \in [clipboard_enabled : BOOLEAN,
                        source_linking_enabled : {TRUE}]

\* A link persisted by an earlier create_source_link, with its one source.
PriorLink == SourceLink(1, "d0", 0, F32_ONE)
PriorSources ==
    BuildLinkedSources(
        <<ActiveSourceEntry("Webpage", "w0", Some("t"), 0, F32_ONE)>>,
        PriorLink, 2, 0)

\* The tables hold the prior link; a tracker in use; one call to come.
LinkStoreInit ==
    /\ now \in TrackerInstants
    /\ sources \in TrackerStates(now)
    /\ source_links = Database_create_source_link(<<>>, PriorLink)
    /\ linked_sources = Database_add_linked_sources(<<>>, PriorSources, 1)
    /\ lpc = [t \in LinkThreads |-> "idle"]
    /\ llocal = [t \in LinkThreads |-> LinkIdleLocal]
    /\ nextUuid = 3
    /\ snapshots = <<>>
    /\ provenance = None
    /\ evicted = None
    /\ linkCalls = 0
    /\ trackerOps = 0

\* Deletion of one SourceLink by id.
delete_source_link ==
    /\ \E j \in 1..Len(source_links) :
        LET after == DeleteSourceLink(source_links, linked_sources,
                                      source_links[j].id)
        IN  /\ source_links' = after[1]
            /\ linked_sources' = after[2]
    /\ provenance' = None
    /\ evicted' = None
    /\ UNCHANGED <<now, sources, lpc, llocal, nextUuid, snapshots, linkCalls,
                   trackerOps, notLink>>

\* ---------------------------------------------------------------------
\* ClipboardMonitor                          capture/clipboard.rs:10-124
\* ---------------------------------------------------------------------

CharSpace == <<1, " ">>

\* What the system clipboard can hold: nothing readable, a blank text, two
\* texts and a text over the size limit.
ClipTexts ==
    { <<CharSpace>>, <<CharA>>, <<CharEAcute>>,
      [k \in 1..(MAX_CLIPBOARD_SIZE + 1) |-> CharB] }
ClipboardStates == {None} \cup {Some(text) : text \in ClipTexts}

\* str::trim().is_empty(): nothing but whitespace.
IsBlank(text) == \A k \in 1..Len(text) : text[k] = CharSpace

\* hash_content (types.rs:287-292): SHA-256 in hex, one digest per text.
hash_content(text) ==
    CASE text = <<CharA>> -> "h1"
      [] text = <<CharEAcute>> -> "h2"
      [] text = <<CharSpace>> -> "h3"
      [] OTHER -> "h4"

\* The callers of start().
SamplerCallers == {1}

\* A sampler loop right after tokio::spawn (line 52). `read` tells whether
\* the tick under way called read_clipboard_content, `pushed` is the digest
\* of the capture the loop last handed to push_clipboard.
SamplerTask_new ==
    [pc |-> "check", last_content_hash |-> None, began |-> "none",
     read |-> FALSE, pushed |-> None]

\* Variant of the loop test that never looks at the flag.
LoopContinues_always(flag) == TRUE

\* The loop test of line 54: running.load(SeqCst).
LoopContinues(flag) == flag

\* Variant of the tick that does not skip blank text.
TickDigest_keeps_blank(cfg, content, last_content_hash) ==
    IF ~cfg.clipboard_enabled THEN None
    ELSE IF content = None THEN None
    ELSE IF ByteLen(content[1]) > MAX_CLIPBOARD_SIZE THEN None
    ELSE IF last_content_hash = Some(hash_content(content[1])) THEN None
    ELSE Some(hash_content(content[1]))

\* Lines 55-84 on a clipboard reading under a configuration: the Option of
\* the digest of the capture the tick goes on to build (None when the tick is
\* skipped).
TickDigest(cfg, content, last_content_hash) ==
    IF ~cfg.clipboard_enabled THEN None
    ELSE IF content = None THEN None
    ELSE IF ByteLen(content[1]) > MAX_CLIPBOARD_SIZE THEN None
    ELSE IF IsBlank(content[1]) THEN None
    ELSE IF last_content_hash = Some(hash_content(content[1])) THEN None
    ELSE Some(hash_content(content[1]))

SamplerInit ==
    /\ running = FALSE
    /\ tasks = <<>>
    /\ spc = [c \in SamplerCallers |-> "idle"]
    /\ clipboard \in ClipboardStates
    /\ ctlOps = 0
    /\ clipSets = 0
    /\ lastCtl = "none"
    /\ lastPush = None

SamplerIdle ==
    /\ running = FALSE
    /\ tasks = <<>>
    /\ spc = [c \in SamplerCallers |-> "idle"]
    /\ clipboard = None
    /\ ctlOps = 0
    /\ clipSets = 0
    /\ lastCtl = "none"
    /\ lastPush = None

\* What a sampler step leaves alone besides the CaptureBuffer it pushes to.
notSamplerNorCapture ==
    <<ringVars, inferVars, linkVars, decayVars, eventVars, summaryVars,
      blockVars, contentVars, configVars, flushVars, previewVars,
      trackerCallVars, lockVars, activeVars>>

\* The user copies something else.
ClipboardSet ==
    /\ clipSets < MaxClipSets
    /\ \E c \in ClipboardStates :
        /\ c # clipboard
        /\ clipboard' = c
    /\ clipSets' = clipSets + 1
    /\ lastPush' = None
    /\ UNCHANGED <<running, tasks, spc, ctlOps, lastCtl>>
    /\ UNCHANGED notSampler

\* start(), lines 39-41: the flag is loaded; the call returns when it is set.
start_load(c) ==
    /\ spc[c] = "idle"
    /\ ctlOps < MaxControlOps
    /\ spc' = [spc EXCEPT ![c] = IF running THEN "idle" ELSE "store"]
    /\ ctlOps' = ctlOps + 1
    /\ lastCtl' = "start"
    /\ lastPush' = None
    /\ UNCHANGED <<running, tasks, clipboard, clipSets>>
    /\ UNCHANGED notSampler

\* start(), lines 43-52: the flag is stored and the loop spawned.
start_spawn(c) ==
    /\ spc[c] = "store"
    /\ running' = TRUE
    /\ tasks' = Append(tasks, SamplerTask_new)
    /\ spc' = [spc EXCEPT ![c] = "idle"]
    /\ lastCtl' = "start"
    /\ lastPush' = None
    /\ UNCHANGED <<clipboard, ctlOps, clipSets>>
    /\ UNCHANGED notSampler

\* stop(), lines 116-118.
stop ==
    /\ ctlOps < MaxControlOps
    /\ running' = FALSE
    /\ ctlOps' = ctlOps + 1
    /\ lastCtl' = "stop"
    /\ lastPush' = None
    /\ UNCHANGED <<tasks, spc, clipboard, clipSets>>
    /\ UNCHANGED notSampler

\* Line 54: a tick begins with the loop test, or the loop ends.
sampler_check(k) ==
    /\ tasks[k].pc = "check"
    /\ tasks' = [tasks EXCEPT ![k].pc =
                    IF LoopContinues(running) THEN "tick" ELSE "done",
                              ![k].began = lastCtl,
                              ![k].read = FALSE]
    /\ lastPush' = None
    /\ UNCHANGED <<running, spc, clipboard, ctlOps, clipSets, lastCtl>>
    /\ UNCHANGED notSampler

\* Lines 55-90: the configuration (a disabled tick sleeps at line 60, before
\* the read of line 68), the clipboard reading and its tests; a tick that
\* goes on records the digest.
sampler_tick(k) ==
    /\ tasks[k].pc = "tick"
    /\ LET digest == TickDigest(capture_config, clipboard,
                                tasks[k].last_content_hash)
       IN  tasks' = [tasks EXCEPT
                ![k].pc = IF digest = None THEN "sleep" ELSE "push",
                ![k].last_content_hash = IF digest = None THEN @ ELSE digest,
                ![k].read = capture_config.clipboard_enabled]
    /\ lastPush' = None
    /\ UNCHANGED <<running, spc, clipboard, ctlOps, clipSets, lastCtl>>
    /\ UNCHANGED notSampler

\* Lines 88-104: the capture is built and pushed.
sampler_push(k) ==
    /\ tasks[k].pc = "push"
    /\ LET capture == ClipboardCapture(nextId, tasks[k].last_content_hash[1])
       IN  /\ CaptureBuffer_push_clipboard(capture)
           /\ lastPush' = Some([task |-> k, capture |-> capture,
                                began |-> tasks[k].began,
                                previous |-> tasks[k].pushed])
    /\ nextId' = nextId + 1
    /\ tasks' = [tasks EXCEPT ![k].pc = "sleep",
                              ![k].pushed = tasks[k].last_content_hash]
    /\ UNCHANGED <<running, spc, clipboard, ctlOps, clipSets, lastCtl>>
    /\ UNCHANGED <<lock, pc, local, returned>>
    /\ UNCHANGED notSamplerNorCapture

\* Lines 59, 71, 77, 84, 107: the sleep ends.
sampler_sleep(k) ==
    /\ tasks[k].pc = "sleep"
    /\ tasks' = [tasks EXCEPT ![k].pc = "check"]
    /\ lastPush' = None
    /\ UNCHANGED <<running, spc, clipboard, ctlOps, clipSets, lastCtl>>
    /\ UNCHANGED notSampler

\* One step of sampler loop k.
SamplerStep(k) ==
    /\ k \in 1..Len(tasks)
    /\ \/ sampler_check(k)
       \/ sampler_tick(k)
       \/ sampler_push(k)
       \/ sampler_sleep(k)

\* ---------------------------------------------------------------------
\* Flush of the CaptureBuffer to storage
\*                 capture/buffer.rs:176-184, capture/storage.rs:257-283
\* ---------------------------------------------------------------------

\* INSERT OR IGNORE (clipboard, ai_exchange, doc_edit) and INSERT OR REPLACE
\* (browse, search) of one capture, the id being the primary key.
InsertRow(f, table, capture) ==
    IF f \in {"browse", "search"}
    THEN Append(SelectSeq(table, LAMBDA r : r.id # capture.id), capture)
    ELSE IF capture.id \in Ids(table) THEN table ELSE Append(table, capture)

RECURSIVE InsertBatch(_, _, _, _)
\* insert_clipboard_captures and its four siblings, lines 257-283, 318, 379,
\* 438, 503: one INSERT per capture, each committed on its own; the table
\* after the first `written` of them succeeded (the call returns the error
\* of the next).
InsertBatch(f, table, captures, written) ==
    IF written = 0 THEN table
    ELSE InsertBatch(f, InsertRow(f, table, Head(captures)), Tail(captures),
                     written - 1)

FlushIdle == capture_tables = [f \in Family |-> <<>>]

\* Position of a family in the order of the flush.
FamilyIndex(f) == CHOOSE k \in 1..Len(Families) : Families[k] = f

\* The ways a flush of the batches `out` can end: all batches written, or
\* the insert of a non-empty batch failing on its lock (written = 0) or on
\* one of its INSERTs.
FlushOutcomes(out) ==
    {[failed |-> "", written |-> 0]}
        \cup {[failed |-> f, written |-> w] :
                f \in {g \in Family : out[g] # <<>>},
                w \in 0..MaxCaptures}

\* The flusher: drain_all, then one batch insert per family in order; the
\* first error is returned, and the batches not written in full stay in the
\* buffer for the next drain.
flush_capture_buffer ==
    LET out == [f \in Family |-> RingBuffer_drain_all(ring[f])[1]] IN
    \E o \in FlushOutcomes(out) :
        LET Done(f) == o.failed = "" \/ FamilyIndex(f) < FamilyIndex(o.failed)
            Written(f) == IF Done(f) THEN Len(out[f])
                          ELSE IF f = o.failed THEN o.written ELSE 0
        IN  /\ o.failed # "" => o.written < Len(out[o.failed])
            /\ capture_tables' =
                 [f \in Family |->
                     InsertBatch(f, capture_tables[f], out[f], Written(f))]
            /\ ring' = [f \in Family |->
                          IF Done(f) THEN RingBuffer_drain_all(ring[f])[2]
                          ELSE ring[f]]
            /\ returned' =
                 CountReturned(UNION {Ids(out[f]) : f \in {g \in Family : Done(g)}})
            /\ logical' = [f \in Family |->
                             IF Done(f) THEN <<>> ELSE logical[f]]
            /\ sinceDrain' = IF o.failed = "" THEN "quiet" ELSE sinceDrain
    /\ UNCHANGED <<last_clipboard_hash, lock, pc, local, nextId, clipCalls,
                   appended, dropped>>
    /\ UNCHANGED <<ringVars, inferVars, linkVars, decayVars, eventVars,
                   summaryVars, blockVars, contentVars, configVars,
                   samplerVars, previewVars, trackerCallVars, lockVars,
                   activeVars>>

\* ---------------------------------------------------------------------
\* generate_preview                          capture/types.rs:276-284
\* ---------------------------------------------------------------------

CharDot == <<1, ".">>

\* Iterator::take(n) on chars(): the first n characters, all when fewer.
TakeChars(text, n) == IF Len(text) <= n THEN text ELSE SubSeq(text, 1, n)

\* Lines 276-284: the length tested is str::len, in bytes; the cut is in
\* characters.
generate_preview(content, max_len) ==
    IF ByteLen(content) <= max_len
    THEN content
    ELSE TakeChars(content, max_len) \o <<CharDot, CharDot, CharDot>>

\* The texts and limits generate_preview is applied to.
PreviewChars == {CharA, CharEAcute, CharEuro}
PreviewTexts ==
    UNION {[1..n -> PreviewChars] : n \in 0..MaxPreviewChars}

PreviewInit ==
    /\ previewArgs \in PreviewTexts \X (0..MaxPreviewLen)
    /\ previewResult = None

PreviewIdle ==
    /\ previewArgs = <<<<>>, 0>>
    /\ previewResult = None

PreviewApply ==
    /\ previewResult = None
    /\ previewResult' = Some(generate_preview(previewArgs[1], previewArgs[2]))
    /\ UNCHANGED previewArgs
    /\ UNCHANGED notPreview

\* ---------------------------------------------------------------------
\* ActiveSourceTracker with activations inside one second
\* ---------------------------------------------------------------------

\* Entries activated, or re-activated, at 0 ms and at 500 ms and not read
\* since.
EvictionEntries ==
    { ActiveSourceEntry(a[1], a[2], a[3], at, F32_ONE) :
        a \in SourceArgs, at \in {0, 500} }

\* A tracker built within the first 500 ms, in any order of insertion and
\* re-activation; no create_source_link call to come.
EvictionInit ==
    /\ now = 500
    /\ sources \in UNION { { srcs \in [1..n -> EvictionEntries] :
                               \A j, k \in 1..n :
                                   srcs[j].source_id = srcs[k].source_id => j = k } :
                           n \in 0..MAX_ACTIVE_SOURCES }
    /\ source_links = <<>>
    /\ linked_sources = <<>>
    /\ lpc = [t \in LinkThreads |-> "idle"]
    /\ llocal = [t \in LinkThreads |-> LinkIdleLocal]
    /\ nextUuid = 1
    /\ snapshots = <<>>
    /\ provenance = None
    /\ evicted = None
    /\ linkCalls = Cardinality(LinkThreads)
    /\ trackerOps = 0

\* ---------------------------------------------------------------------
\* ActiveSourceTracker read around the relevance threshold
\* ---------------------------------------------------------------------

\* Entries activated at 0 s and at 1 s and not read since.
SweepEntries ==
    { ActiveSourceEntry(a[1], a[2], a[3], at, F32_ONE) :
        a \in SourceArgs, at \in {0, 1000} }

\* A tracker, empty or full, 70 s or 71 s after the first activation: an
\* entry is then 69, 70 or 71 whole seconds old.
SweepInit ==
    /\ now \in {70000, 71000}
    /\ sources \in { srcs \in [1..MAX_ACTIVE_SOURCES -> SweepEntries] :
                       \A j, k \in 1..MAX_ACTIVE_SOURCES :
                           srcs[j].source_id = srcs[k].source_id => j = k }
                   \cup {ActiveSourceTracker_new}
    /\ source_links = <<>>
    /\ linked_sources = <<>>
    /\ lpc = [t \in LinkThreads |-> "idle"]
    /\ llocal = [t \in LinkThreads |-> LinkIdleLocal]
    /\ nextUuid = 1
    /\ snapshots = <<>>
    /\ provenance = None
    /\ evicted = None
    /\ linkCalls = Cardinality(LinkThreads)
    /\ trackerOps = 0

\* ---------------------------------------------------------------------
\* The mutexes of the CaptureBuffer and the EventBuffer
\*          capture/buffer.rs:107-214, workstream/buffer.rs:26-143
\* ---------------------------------------------------------------------

\* Number of operations the callers start in one run.
MaxLockOps == 3

\* The calling threads.
LockThreads == {1, 2}

\* Every mutex, in the order in which a thread holding one may lock another.
MutexOrder ==
    <<"last_clipboard_hash", "clipboard", "browse", "search", "ai_exchange",
      "doc_edit", "events", "current_context">>
Mutexes == {MutexOrder[k] : k \in 1..Len(MutexOrder)}

Lock(m) == <<"lock", m>>
Unlock(m) == <<"unlock", m>>

\* One statement per mutex, each dropping its guard at its end.
LockEach(ms) ==
    [k \in 1..(2 * Len(ms)) |->
        IF k % 2 = 1 THEN Lock(ms[(k + 1) \div 2]) ELSE Unlock(ms[k \div 2])]

\* Guards taken in order and alive together, dropped in reverse order.
LockAll(ms) ==
    [k \in 1..(2 * Len(ms)) |->
        IF k <= Len(ms) THEN Lock(ms[k]) ELSE Unlock(ms[2 * Len(ms) + 1 - k])]

\* The operations of the CaptureBuffer. push_clipboard returns after its
\* first critical section on a duplicate (variant 0). has_data stops at the
\* first family with data (variant: the number of families looked at); the
\* guard of the first operand of the || chain lives to the end of the
\* expression or to the end of the operand, by the version of the compiler
\* (held).
CaptureOps ==
    {[buffer |-> "CaptureBuffer", name |-> n, variant |-> 0, held |-> FALSE] :
        n \in {"push_clipboard", "push_browse", "update_browse", "push_search",
               "update_search_click", "push_ai_exchange", "push_doc_edit",
               "drain_all", "status", "clear"}}
    \cup {[buffer |-> "CaptureBuffer", name |-> "push_clipboard", variant |-> 1,
           held |-> FALSE]}
    \cup {[buffer |-> "CaptureBuffer", name |-> "has_data", variant |-> n,
           held |-> h] : n \in 1..Len(Families), h \in BOOLEAN}

\* The operations of the EventBuffer.
EventOps ==
    {[buffer |-> "EventBuffer", name |-> n, variant |-> 0, held |-> FALSE] :
        n \in {"push", "status", "can_create_block", "flush", "clear",
               "time_since_last_event"}}

\* A status that takes the family mutexes in the reverse order.
CaptureLockProgram_status_reversed(op) ==
    CASE op.name = "push_clipboard" ->
            IF op.variant = 0
            THEN LockEach(<<"last_clipboard_hash">>)
            ELSE LockEach(<<"last_clipboard_hash", "clipboard">>)
      [] op.name \in {"push_browse", "update_browse"} -> LockEach(<<"browse">>)
      [] op.name \in {"push_search", "update_search_click"} ->
            LockEach(<<"search">>)
      [] op.name = "push_ai_exchange" -> LockEach(<<"ai_exchange">>)
      [] op.name = "push_doc_edit" -> LockEach(<<"doc_edit">>)
      [] op.name = "drain_all" -> LockAll(Families)
      [] op.name = "status" ->
            LockAll([k \in 1..Len(Families) |-> Families[Len(Families) + 1 - k]])
      [] op.name = "has_data" ->
            IF op.held
            THEN <<Lock("clipboard")>>
                    \o LockEach(SubSeq(Families, 2, op.variant))
                    \o <<Unlock("clipboard")>>
            ELSE LockEach(SubSeq(Families, 1, op.variant))
      [] op.name = "clear" ->
            LockEach(Families \o <<"last_clipboard_hash">>)

\* capture/buffer.rs:107-214: the locks and unlocks of each operation.
\* drain_all and status build one struct expression, whose guards live until
\* the method returns; clear is one statement per family.
CaptureLockProgram(op) ==
    CASE op.name = "push_clipboard" ->
            IF op.variant = 0
            THEN LockEach(<<"last_clipboard_hash">>)
            ELSE LockEach(<<"last_clipboard_hash", "clipboard">>)
      [] op.name \in {"push_browse", "update_browse"} -> LockEach(<<"browse">>)
      [] op.name \in {"push_search", "update_search_click"} ->
            LockEach(<<"search">>)
      [] op.name = "push_ai_exchange" -> LockEach(<<"ai_exchange">>)
      [] op.name = "push_doc_edit" -> LockEach(<<"doc_edit">>)
      [] op.name \in {"drain_all", "status"} -> LockAll(Families)
      [] op.name = "has_data" ->
            IF op.held
            THEN <<Lock("clipboard")>>
                    \o LockEach(SubSeq(Families, 2, op.variant))
                    \o <<Unlock("clipboard")>>
            ELSE LockEach(SubSeq(Families, 1, op.variant))
      [] op.name = "clear" ->
            LockEach(Families \o <<"last_clipboard_hash">>)

\* workstream/buffer.rs:26-143: push, status, flush and clear lock events and
\* then current_context, and the two locals are dropped in reverse order at
\* the return; can_create_block and time_since_last_event lock events alone.
EventLockProgram(op) ==
    IF op.name \in {"can_create_block", "time_since_last_event"}
    THEN LockEach(<<"events">>)
    ELSE LockAll(<<"events", "current_context">>)

LockProgram(op) ==
    IF op.buffer = "CaptureBuffer" THEN CaptureLockProgram(op)
    ELSE EventLockProgram(op)

NoCall == [buffer |-> "", name |-> "", variant |-> 0, held |-> FALSE]

LockInit ==
    /\ owner = [m \in Mutexes |-> 0]
    /\ calls = [t \in LockThreads |-> [op |-> NoCall, at |-> 0]]
    /\ lockOps = 0

LockIdle == LockInit

\* The thread is inside an operation, and its next lock or unlock.
InCall(t) == calls[t].op # NoCall
NextInstr(t) == LockProgram(calls[t].op)[calls[t].at]

\* The call record after one more instruction of the operation.
Advance(call) ==
    IF call.at = Len(LockProgram(call.op))
    THEN [op |-> NoCall, at |-> 0]
    ELSE [call EXCEPT !.at = @ + 1]

\* A thread calls an operation of one of the buffers.
call_begin(t) ==
    /\ ~InCall(t)
    /\ lockOps < MaxLockOps
    /\ \E op \in CaptureOps \cup EventOps :
          calls' = [calls EXCEPT ![t] = [op |-> op, at |-> 1]]
    /\ lockOps' = lockOps + 1
    /\ UNCHANGED <<owner, notLock>>

\* Mutex::lock: the thread waits until the mutex is free and takes it.
mutex_lock(t) ==
    /\ IF InCall(t) THEN NextInstr(t)[1] = "lock" ELSE FALSE
    /\ owner[NextInstr(t)[2]] = 0
    /\ owner' = [owner EXCEPT ![NextInstr(t)[2]] = t]
    /\ calls' = [calls EXCEPT ![t] = Advance(@)]
    /\ UNCHANGED <<lockOps, notLock>>

\* The guard is dropped; the operation returns after its last one.
mutex_unlock(t) ==
    /\ IF InCall(t) THEN NextInstr(t)[1] = "unlock" ELSE FALSE
    /\ owner' = [owner EXCEPT ![NextInstr(t)[2]] = 0]
    /\ calls' = [calls EXCEPT ![t] = Advance(@)]
    /\ UNCHANGED <<lockOps, notLock>>

\* A step of a thread inside an operation.
LockStep(t) == mutex_lock(t) \/ mutex_unlock(t)

\* ---------------------------------------------------------------------
\* ClipboardMonitor: the active source       capture/clipboard.rs:32-35, 92-104
\* ---------------------------------------------------------------------

\* Number of set_active_source calls and of captures the sampler builds.
MaxSetCalls == 2
MaxSourceTicks == 2

\* The callers of set_active_source.
SetCallers == {1, 2}

\* The (url, title) pairs callers install: two pages, and no page.
SourcePairs ==
    { <<Some("u1"), Some("t1")>>, <<Some("u2"), Some("t2")>>, <<None, None>> }

SetIdle == [pc |-> "idle", url |-> None, title |-> None]

\* ClipboardMonitor::new, lines 26-27.
ActiveInit ==
    /\ active_source_url = None
    /\ active_source_title = None
    /\ setCalls = [c \in SetCallers |-> SetIdle]
    /\ sourceTick = [pc |-> "idle", source_url |-> None]
    /\ setOps = 0
    /\ sourceTicks = 0
    /\ capturedSource = None

ActiveIdle == ActiveInit

\* set_active_source, line 33: the url is stored under its mutex.
set_active_source_url(c) ==
    /\ setCalls[c].pc = "idle"
    /\ setOps < MaxSetCalls
    /\ \E pair \in SourcePairs :
          /\ active_source_url' = pair[1]
          /\ setCalls' = [setCalls EXCEPT ![c] =
                            [pc |-> "title", url |-> pair[1], title |-> pair[2]]]
    /\ setOps' = setOps + 1
    /\ capturedSource' = None
    /\ UNCHANGED <<active_source_title, sourceTick, sourceTicks, notActive>>

\* set_active_source, line 34: the title is stored under its mutex.
set_active_source_title(c) ==
    /\ setCalls[c].pc = "title"
    /\ active_source_title' = setCalls[c].title
    /\ setCalls' = [setCalls EXCEPT ![c] = SetIdle]
    /\ capturedSource' = None
    /\ UNCHANGED <<active_source_url, sourceTick, setOps, sourceTicks, notActive>>

\* The sampler, line 93, in a tick that passed its tests: the url is cloned
\* under its mutex.
sampler_source_url ==
    /\ sourceTick.pc = "idle"
    /\ sourceTicks < MaxSourceTicks
    /\ sourceTick' = [pc |-> "title", source_url |-> active_source_url]
    /\ sourceTicks' = sourceTicks + 1
    /\ capturedSource' = None
    /\ UNCHANGED <<active_source_url, active_source_title, setCalls, setOps,
                   notActive>>

\* The sampler, lines 94-104: the title is cloned under its mutex and the
\* capture built with the two.
sampler_source_title ==
    /\ sourceTick.pc = "title"
    /\ capturedSource' = Some(<<sourceTick.source_url, active_source_title>>)
    /\ sourceTick' = [pc |-> "idle", source_url |-> None]
    /\ UNCHANGED <<active_source_url, active_source_title, setCalls, setOps,
                   sourceTicks, notActive>>

\* ---------------------------------------------------------------------
\* Specifications
\* ---------------------------------------------------------------------

InitRing == RingInit /\ CaptureInit /\ InferIdle /\ LinkInit /\ DecayIdle /\ EventInit /\ SummaryIdle /\ BlockInit /\ ActiveIdle /\ LockIdle /\ TrackerCallIdle /\ PreviewIdle /\ FlushIdle /\ SamplerIdle /\ ConfigIdle /\ ContentIdle

NextRing ==
    \/ RingPush
    \/ RingDrainAll
    \/ RingClear

SpecRing == InitRing /\ [][NextRing]_vars

InitCapture == RingIdle /\ CaptureInit /\ InferIdle /\ LinkInit /\ DecayIdle /\ EventInit /\ SummaryIdle /\ BlockInit /\ ActiveIdle /\ LockIdle /\ TrackerCallIdle /\ PreviewIdle /\ FlushIdle /\ SamplerIdle /\ ConfigIdle /\ ContentIdle

NextCapture ==
    \/ push_clipboard
    \/ push_other
    \/ update_browse
    \/ drain_all
    \/ clear

SpecCapture == InitCapture /\ [][NextCapture]_vars

InitConcurrent == RingIdle /\ CaptureInit /\ InferIdle /\ LinkInit /\ DecayIdle /\ EventInit /\ SummaryIdle /\ BlockInit /\ ActiveIdle /\ LockIdle /\ TrackerCallIdle /\ PreviewIdle /\ FlushIdle /\ SamplerIdle /\ ConfigIdle /\ ContentIdle

NextConcurrent ==
    \E t \in Threads :
        \/ push_clipboard_check(t)
        \/ push_clipboard_push(t)
        \/ push_other_locked(t)
        \/ update_browse_locked(t)
        \/ update_search_click_locked(t)
        \/ drain_all_begin(t)
        \/ drain_all_family(t)
        \/ drain_all_end(t)
        \/ status_begin(t)
        \/ status_family(t)
        \/ status_end(t)

SpecConcurrent == InitConcurrent /\ [][NextConcurrent]_vars

InitInfer == RingIdle /\ CaptureInit /\ InferInit /\ LinkInit /\ DecayIdle /\ EventInit /\ SummaryIdle /\ BlockInit /\ ActiveIdle /\ LockIdle /\ TrackerCallIdle /\ PreviewIdle /\ FlushIdle /\ SamplerIdle /\ ConfigIdle /\ ContentIdle

NextInfer == InferApply

SpecInfer == InitInfer /\ [][NextInfer]_vars

InitLinker == RingIdle /\ CaptureInit /\ InferIdle /\ LinkInit /\ DecayIdle /\ EventInit /\ SummaryIdle /\ BlockInit /\ ActiveIdle /\ LockIdle /\ TrackerCallIdle /\ PreviewIdle /\ FlushIdle /\ SamplerIdle /\ ConfigIdle /\ ContentIdle

NextLinker ==
    \/ Tick
    \/ activate_source
    \/ deactivate_source
    \/ get_active_sources
    \/ apply_decay
    \/ get_document_provenance
    \/ \E t \in LinkThreads :
          \/ create_source_link_begin(t)
          \/ create_source_link_snapshot(t)
          \/ create_source_link_insert(t)
          \/ create_source_link_add(t)

SpecLinker == InitLinker /\ [][NextLinker]_vars

InitTracker == RingIdle /\ CaptureInit /\ InferIdle /\ TrackerInit /\ DecayIdle /\ EventInit /\ SummaryIdle /\ BlockInit /\ ActiveIdle /\ LockIdle /\ TrackerCallIdle /\ PreviewIdle /\ FlushIdle /\ SamplerIdle /\ ConfigIdle /\ ContentIdle

NextTracker ==
    \/ Tick
    \/ activate_source
    \/ deactivate_source
    \/ get_active_sources
    \/ apply_decay

SpecTracker == InitTracker /\ [][NextTracker]_vars

InitDecay == RingIdle /\ CaptureInit /\ InferIdle /\ LinkInit /\ DecayInit /\ EventInit /\ SummaryIdle /\ BlockInit /\ ActiveIdle /\ LockIdle /\ TrackerCallIdle /\ PreviewIdle /\ FlushIdle /\ SamplerIdle /\ ConfigIdle /\ ContentIdle

NextDecay == DecayRead

SpecDecay == InitDecay /\ [][NextDecay]_vars

InitEventBuffer ==
    RingIdle /\ CaptureInit /\ InferIdle /\ LinkInit /\ DecayIdle /\ EventInit /\ SummaryIdle /\ BlockInit /\ ActiveIdle /\ LockIdle /\ TrackerCallIdle /\ PreviewIdle /\ FlushIdle /\ SamplerIdle /\ ConfigIdle /\ ContentIdle

NextEventBuffer ==
    \/ EventBuffer_push
    \/ EventBuffer_flush
    \/ EventBuffer_clear

SpecEventBuffer == InitEventBuffer /\ [][NextEventBuffer]_vars

InitEventConcurrent ==
    RingIdle /\ CaptureInit /\ InferIdle /\ LinkInit /\ DecayIdle /\ EventInit /\ SummaryIdle /\ BlockInit /\ ActiveIdle /\ LockIdle /\ TrackerCallIdle /\ PreviewIdle /\ FlushIdle /\ SamplerIdle /\ ConfigIdle /\ ContentIdle

NextEventConcurrent ==
    \E t \in EbThreads :
        \/ push_lock_events(t)
        \/ push_lock_context(t)
        \/ push_body(t)
        \/ flush_lock_events(t)
        \/ flush_lock_context(t)
        \/ flush_body(t)

SpecEventConcurrent == InitEventConcurrent /\ [][NextEventConcurrent]_vars

InitSummary ==
    RingIdle /\ CaptureInit /\ InferIdle /\ LinkInit /\ DecayIdle /\ EventInit /\ SummaryInit /\ BlockInit /\ ActiveIdle /\ LockIdle /\ TrackerCallIdle /\ PreviewIdle /\ FlushIdle /\ SamplerIdle /\ ConfigIdle /\ ContentIdle

NextSummary == SummaryApply

SpecSummary == InitSummary /\ [][NextSummary]_vars

InitBlocks ==
    RingIdle /\ CaptureInit /\ InferIdle /\ LinkInit /\ DecayIdle /\ EventInit /\ SummaryIdle /\ BlockInit /\ ActiveIdle /\ LockIdle /\ TrackerCallIdle /\ PreviewIdle /\ FlushIdle /\ SamplerIdle /\ ConfigIdle /\ ContentIdle

NextBlocks ==
    \/ create_ws_block
    \/ create_manual_block

SpecBlocks == InitBlocks /\ [][NextBlocks]_vars

InitContent ==
    RingIdle /\ CaptureInit /\ InferIdle /\ LinkInit /\ DecayIdle /\ EventInit /\ SummaryIdle /\ BlockInit /\ ActiveIdle /\ LockIdle /\ TrackerCallIdle /\ PreviewIdle /\ FlushIdle /\ SamplerIdle /\ ConfigIdle /\ ContentInit

NextContent ==
    \/ ContentTick
    \/ store_content
    \/ get_content
    \/ cleanup_capture_content

SpecContent == InitContent /\ [][NextContent]_vars

InitBlockCleanup ==
    RingIdle /\ CaptureInit /\ InferIdle /\ LinkInit /\ DecayIdle /\ EventInit /\ SummaryIdle /\ BlockInit /\ ActiveIdle /\ LockIdle /\ TrackerCallIdle /\ PreviewIdle /\ FlushIdle /\ SamplerIdle /\ ConfigIdle /\ ContentIdle

NextBlockCleanup ==
    \/ create_ws_block
    \/ create_manual_block
    \/ BlockTick
    \/ update_work_block
    \/ delete_work_block
    \/ cleanup_workstream

SpecBlockCleanup == InitBlockCleanup /\ [][NextBlockCleanup]_vars

InitLinkStore ==
    RingIdle /\ CaptureInit /\ InferIdle /\ LinkStoreInit /\ DecayIdle /\ EventInit /\ SummaryIdle /\ BlockInit /\ ActiveIdle /\ LockIdle /\ TrackerCallIdle /\ PreviewIdle /\ FlushIdle /\ SamplerIdle /\ ContentIdle /\ LinkConfigInit

NextLinkStore ==
    \/ \E t \in LinkThreads :
        \/ create_source_link_begin(t)
        \/ create_source_link_snapshot(t)
        \/ create_source_link_insert(t)
        \/ create_source_link_add(t)
    \/ delete_source_link

SpecLinkStore == InitLinkStore /\ [][NextLinkStore]_vars

InitSampler ==
    RingIdle /\ CaptureInit /\ InferIdle /\ LinkInit /\ DecayIdle /\ EventInit /\ SummaryIdle /\ BlockInit /\ ActiveIdle /\ LockIdle /\ TrackerCallIdle /\ PreviewIdle /\ FlushIdle /\ ContentIdle /\ SamplerConfigInit /\ SamplerInit

NextSampler ==
    \/ ClipboardSet
    \/ \E c \in SamplerCallers :
        \/ start_load(c)
        \/ start_spawn(c)
    \/ stop
    \/ \E k \in 1..MaxControlOps :
        \/ k <= Len(tasks) /\ sampler_check(k)
        \/ k <= Len(tasks) /\ sampler_tick(k)
        \/ k <= Len(tasks) /\ sampler_push(k)
        \/ k <= Len(tasks) /\ sampler_sleep(k)

SpecSampler == InitSampler /\ [][NextSampler]_vars

\* The tokio runtime polls every spawned task that is ready, and a sleep
\* ends: each sampler loop keeps taking steps.
SamplerFairness == \A k \in 1..MaxControlOps : WF_vars(SamplerStep(k))

SpecSamplerLive == InitSampler /\ [][NextSampler]_vars /\ SamplerFairness

InitFlush ==
    RingIdle /\ CaptureInit /\ InferIdle /\ LinkInit /\ DecayIdle /\ EventInit /\ SummaryIdle /\ BlockInit /\ ActiveIdle /\ LockIdle /\ TrackerCallIdle /\ PreviewIdle /\ ContentIdle /\ ConfigIdle /\ SamplerIdle /\ FlushIdle

NextFlush ==
    \/ push_clipboard
    \/ push_other
    \/ flush_capture_buffer

SpecFlush == InitFlush /\ [][NextFlush]_vars

InitPreview ==
    RingIdle /\ CaptureInit /\ InferIdle /\ LinkInit /\ DecayIdle /\ EventInit /\ SummaryIdle /\ BlockInit /\ ActiveIdle /\ LockIdle /\ TrackerCallIdle /\ ContentIdle /\ ConfigIdle /\ SamplerIdle /\ FlushIdle /\ PreviewInit

NextPreview == PreviewApply

SpecPreview == InitPreview /\ [][NextPreview]_vars

InitEviction ==
    RingIdle /\ CaptureInit /\ InferIdle /\ EvictionInit /\ DecayIdle /\ EventInit /\ SummaryIdle /\ BlockInit /\ ActiveIdle /\ LockIdle /\ TrackerCallIdle /\ ContentIdle /\ ConfigIdle /\ SamplerIdle /\ FlushIdle /\ PreviewIdle

NextEviction ==
    \/ Tick
    \/ activate_source

SpecEviction == InitEviction /\ [][NextEviction]_vars

InitSweep ==
    RingIdle /\ CaptureInit /\ InferIdle /\ SweepInit /\ DecayIdle /\ EventInit /\ SummaryIdle /\ BlockInit /\ ActiveIdle /\ LockIdle /\ TrackerCallIdle /\ ContentIdle /\ ConfigIdle /\ SamplerIdle /\ FlushIdle /\ PreviewIdle

NextSweep ==
    \/ Tick
    \/ get_active_sources
    \/ apply_decay

SpecSweep == InitSweep /\ [][NextSweep]_vars

InitLocks ==
    RingIdle /\ CaptureInit /\ InferIdle /\ LinkInit /\ DecayIdle /\ EventInit /\ SummaryIdle /\ BlockInit /\ ActiveIdle /\ LockInit /\ TrackerCallIdle /\ ContentIdle /\ ConfigIdle /\ SamplerIdle /\ FlushIdle /\ PreviewIdle

NextLocks ==
    \E t \in LockThreads :
        \/ call_begin(t)
        \/ mutex_lock(t)
        \/ mutex_unlock(t)

SpecLocks == InitLocks /\ [][NextLocks]_vars

\* The operating system runs every thread that is able to run.
LockFairness == \A t \in LockThreads : WF_vars(LockStep(t))

SpecLocksLive == InitLocks /\ [][NextLocks]_vars /\ LockFairness

InitActiveSource ==
    RingIdle /\ CaptureInit /\ InferIdle /\ LinkInit /\ DecayIdle /\ EventInit /\ SummaryIdle /\ BlockInit /\ ActiveInit /\ LockIdle /\ TrackerCallIdle /\ ContentIdle /\ ConfigIdle /\ SamplerIdle /\ FlushIdle /\ PreviewIdle

NextActiveSource ==
    \/ \E c \in SetCallers :
        \/ set_active_source_url(c)
        \/ set_active_source_title(c)
    \/ sampler_source_url
    \/ sampler_source_title

SpecActiveSource == InitActiveSource /\ [][NextActiveSource]_vars

\* ---------------------------------------------------------------------
\* Claims
\* ---------------------------------------------------------------------

\* Consecutive push_clipboard calls k, k+1 (no clipboard push or clear between).
ClipPairs == {k \in 1..(Len(clipCalls) - 1) : TRUE}
SameHashPairs ==
    {k \in ClipPairs : clipCalls[k].content_hash = clipCalls[k + 1].content_hash}

\* C1 as stated: of any two consecutive push_clipboard calls with the same
\* content hash the first returns true and stores one entry, the second
\* returns false and stores nothing.
C1_AsStated ==
    \A k \in SameHashPairs :
        /\ clipCalls[k].ret /\ clipCalls[k].stored
        /\ ~clipCalls[k + 1].ret /\ ~clipCalls[k + 1].changed

\* C1 amended: of two consecutive push_clipboard calls with the same hash the
\* second returns false and leaves the ring unchanged; the first returns true
\* and stores one entry unless it itself directly follows a push of that hash;
\* a push whose hash differs from the preceding push's is accepted and stored;
\* h1, h1, h2 on an empty buffer with no drain between leaves 2 entries.
C1_ConsecutiveDuplicate ==
    /\ \A k \in SameHashPairs :
        /\ ~clipCalls[k + 1].ret /\ ~clipCalls[k + 1].changed
        /\ (k = 1 \/ clipCalls[k - 1].content_hash # clipCalls[k].content_hash)
              => /\ clipCalls[k].ret /\ clipCalls[k].stored
                 /\ clipCalls[k].len_after >= 1
    /\ \A k \in ClipPairs \ SameHashPairs :
        clipCalls[k + 1].ret /\ clipCalls[k + 1].stored
    /\ \A k \in 1..Len(clipCalls) : clipCalls[k].ret = clipCalls[k].changed
    /\ \A k \in SameHashPairs :
        (/\ k + 2 <= Len(clipCalls)
         /\ clipCalls[k + 2].content_hash # clipCalls[k].content_hash
         /\ clipCalls[k].len_before = 0 /\ clipCalls[k].ret
         /\ clipCalls[k + 2].epoch = clipCalls[k].epoch
         /\ CLIPBOARD_CAPACITY >= 2)
            => clipCalls[k + 2].len_after = 2

\* C1 witness: h1, h1, h2 pushed into a fresh buffer: true, false, true, 2 entries.
C1_Witness ==
    /\ Len(clipCalls) = 3
    /\ clipCalls[1].content_hash = "h1" /\ clipCalls[1].ret
    /\ clipCalls[2].content_hash = "h1" /\ ~clipCalls[2].ret
    /\ clipCalls[3].content_hash = "h2" /\ clipCalls[3].ret
    /\ RingBuffer_len(ring["clipboard"]) = 2
    /\ returned = <<>> /\ dropped = {}

\* C2: for every capacity > 0 the length never exceeds the capacity, the
\* contents after pushes are the last `capacity` pushed values in order, and a
\* drain_all returns exactly those and leaves the buffer empty.
C2_RingBound ==
    rb.capacity > 0 =>
        /\ RingBuffer_len(rb) <= rb.capacity
        /\ rbOp = "push" => rb.buffer = LastN(rbPushed, rb.capacity)
        /\ rbOp = "drain_all" =>
              /\ rbOut = LastN(rbPushed, rb.capacity)
              /\ RingBuffer_is_empty(rb)

\* C2 witness: capacity 3, pushes 1,2,3,4, then drain_all returned [2,3,4].
C2_Witness ==
    /\ rb.capacity = 3
    /\ rbOp = "drain_all"
    /\ rbPushed = <<1, 2, 3, 4>>
    /\ rbOut = <<2, 3, 4>>
    /\ rb.buffer = <<>>

\* The accepted push_clipboard calls, in the order their captures were appended.
AcceptedCalls == SelectSeq(clipCalls, LAMBDA c : c.ret)

\* C3 as stated: whenever no push_clipboard is in progress, the last-hash slot
\* holds the hash of the most recently appended clipboard capture, and no two
\* captures with the same hash are appended back-to-back.
C3_AsStated ==
    InMethod("push_clipboard") = {} =>
        /\ AcceptedCalls # <<>> =>
              last_clipboard_hash =
                  Some(AcceptedCalls[Len(AcceptedCalls)].content_hash)
        /\ \A k \in 1..(Len(AcceptedCalls) - 1) :
              AcceptedCalls[k].content_hash # AcceptedCalls[k + 1].content_hash

\* A drain_all that has computed every field and is about to return.
Returning(t) == pc[t] = "drain_all" /\ local[t].i > Len(Families)

\* A status that has computed every field and is about to return.
StatusReturning(t) == pc[t] = "status" /\ local[t].i > Len(Families)

\* C4: drain_all is one logical operation: what it returns is, for all five
\* families at the single instant it returns, the family's contents as left by
\* the pushes and updates that took effect before that instant; nothing
\* appended before it began is left in a ring when it returns; a concurrent
\* status reports the lengths of one such instant, never a half-drained buffer.
C4_DrainOneOperation ==
    /\ \A t \in Threads : Returning(t) =>
          /\ local[t].out = logical
          /\ AllRingIds \cap local[t].before = {}
          /\ \A f \in Family : RingBuffer_is_empty(ring[f])
    /\ \A t \in Threads : StatusReturning(t) =>
          local[t].counts = [f \in Family |-> Len(logical[f])]
    /\ InMethod("drain_all") = {} =>
          logical = [f \in Family |-> ring[f].buffer]

\* C4 witness: a drain_all about to return a capture that was appended after
\* it began, while another caller is inside push_clipboard waiting for the
\* clipboard ring.
C4_Witness ==
    \E t \in Threads :
        /\ Returning(t)
        /\ \E f \in Family : Ids(local[t].out[f]) \ local[t].before # {}
        /\ \E u \in Threads : pc[u] = "push_clipboard"

\* Captures some drain_all has taken out of a ring.
ReturnedIds == DOMAIN returned

\* C5: every appended capture is returned by at most one drain_all, and is at
\* every moment in exactly one place: still in its ring, dropped by overflow or
\* clear, or returned by exactly one drain_all; a drain_all that follows another
\* with no capture appended in between returns an empty list for every family.
C5_DrainedOnce ==
    /\ \A id \in ReturnedIds : returned[id] = 1
    /\ \A id \in appended :
          Cardinality({p \in {"ring", "dropped", "returned"} :
              \/ p = "ring" /\ id \in AllRingIds
              \/ p = "dropped" /\ id \in dropped
              \/ p = "returned" /\ id \in ReturnedIds}) = 1
    /\ \A t \in Threads :
          (Returning(t) /\ sinceDrain = "quiet") => local[t].out = EmptyOut

\* C5 witness: a second drain_all about to return nothing, directly after a
\* drain_all that returned captures, while a capture dropped by overflow exists.
C5_Witness ==
    \E t \in Threads :
        /\ Returning(t)
        /\ sinceDrain = "quiet"
        /\ ReturnedIds # {}
        /\ dropped # {}

\* ---------------------------------------------------------------------
\* Claims about the source linker
\* ---------------------------------------------------------------------

\* The rows of the source_links table, and the links callers hold in flight.
PersistedLinks == {source_links[k] : k \in 1..Len(source_links)}
LinksInFlight == {llocal[t].link[1] : t \in {u \in LinkThreads : llocal[u].link # None}}
\* The snapshot entries of link id whose relevance, recomputed from
\* activated_at at the instant of the snapshot, reaches the threshold.
SnapshotQualifying(id) ==
    LET snap == snapshots[id]
        fresh == [k \in 1..Len(snap.held) |->
                    [snap.held[k] EXCEPT !.relevance =
                        DecayedRelevance(snap.held[k].activated_at, snap.at)]]
    IN  SelectSeq(fresh, LAMBDA s : s.relevance >= MIN_RELEVANCE_THRESHOLD)
\* The exact sum of the relevances of a sequence of entries.
RECURSIVE ExactSum(_)
ExactSum(s) == IF s = <<>> THEN 0 ELSE s[1].relevance + ExactSum(Tail(s))
\* The f32 nearest to tenths / 10, in units of 2^-26.
F32Tenths(tenths) == F32Div(tenths * F32_ONE, 10)

\* C6 as stated: storage never holds a link created from a non-empty snapshot
\* without all of that snapshot's LinkedSources.
C6_AsStated ==
    \A link \in PersistedLinks :
        Len(LinkedSourcesOf(linked_sources, link.id))
            = Len(snapshots[link.id].active_sources)

\* C7: the LinkedSources persisted for a link are, in order, the entries the
\* tracker held at the one instant of the snapshot whose relevance recomputed
\* at that instant is >= 0.3 (all of them once the call has succeeded, none
\* from any other instant), each typed by that relevance, and the link's
\* confidence is computed from those same relevances.
C7_OneSnapshot ==
    \A id \in DOMAIN snapshots :
        LET expected == SnapshotQualifying(id)
            rows == LinkedSourcesOf(linked_sources, id)
        IN  /\ snapshots[id].active_sources = expected
            /\ Len(rows) <= Len(expected)
            /\ \A k \in 1..Len(rows) :
                  /\ rows[k].source_id = expected[k].source_id
                  /\ rows[k].source_type = expected[k].source_type
                  /\ rows[k].contribution_type =
                        infer_contribution_type(expected[k].source_type,
                                                expected[k].relevance)
            /\ snapshots[id].outcome = "Ok" => Len(rows) = Len(expected)
            /\ \A link \in PersistedLinks \cup LinksInFlight :
                  (link.id = id /\ expected # <<>>) =>
                      link.confidence_score = confidence_score(expected)

\* A link was created with success from a snapshot that held an expired entry
\* next to one activated after the call had begun: only the latter is linked.
C7_Witness ==
    \E link \in PersistedLinks :
        /\ snapshots[link.id].outcome = "Ok"
        /\ Len(snapshots[link.id].held) = 2
        /\ Len(LinkedSourcesOf(linked_sources, link.id)) = 1
        /\ snapshots[link.id].active_sources[1].activated_at > link.created_at

\* Rounding of the f32 sum and quotient moves a mean of relevances by less
\* than 2^-23.
MeanTolerance == 2 * F32_ULP_BELOW_ONE
\* The relevances of the example: 1.0 once and 0.5 twenty-nine times.
ExampleRelevances ==
    [k \in 1..30 |-> [relevance |-> IF k = 1 THEN F32_ONE ELSE F32_ONE \div 2]]

\* C8: every link's confidence_score is within [0, 1]; it is 0.0 exactly when
\* the link was created from no sources (and, once the call has succeeded,
\* exactly when no LinkedSource is stored for it); otherwise it is the mean of
\* the linked sources' relevances at the snapshot, to f32 rounding.  The
\* example of thirty sources gives 0.5167 to four places (a fact about the
\* function alone, evaluated in the initial state).
C8_ConfidenceIsMean ==
    /\ \A link \in PersistedLinks \cup LinksInFlight :
          LET linked == SnapshotQualifying(link.id)
              n == Len(linked)
              c == link.confidence_score
              diff == n * c - ExactSum(linked)
          IN  /\ 0 <= c /\ c <= F32_ONE
              /\ c = 0 <=> n = 0
              /\ snapshots[link.id].outcome = "Ok" =>
                    (c = 0 <=> LinkedSourcesOf(linked_sources, link.id) = <<>>)
              /\ n > 0 => /\ diff <= n * MeanTolerance
                          /\ -diff <= n * MeanTolerance
    /\ (linkCalls = 0 /\ trackerOps = 0 /\ now = 0 /\ provenance = None) =>
       LET c == confidence_score(ExampleRelevances)
       IN  /\ c >= 5166 * (F32_ONE \div 10000)
           /\ c <= 5168 * (F32_ONE \div 10000 + 1)

\* A stored link created with success from two sources of different
\* relevance, its confidence strictly between the two.
C8_Witness ==
    \E link \in PersistedLinks :
        LET linked == SnapshotQualifying(link.id)
        IN  /\ snapshots[link.id].outcome = "Ok"
            /\ Len(linked) = 2
            /\ linked[1].relevance < link.confidence_score
            /\ link.confidence_score < linked[2].relevance

\* C9: a create_source_link call whose snapshot has no source at or above the
\* threshold fails only if the INSERT of its link failed, in which case it
\* stored nothing; otherwise it returns and stores exactly one SourceLink, with
\* confidence 0.0 and no LinkedSource, and a successful
\* get_document_provenance for its document returns that link exactly once,
\* with an empty source list.
C9_OrphanLink ==
    \A id \in DOMAIN snapshots :
        snapshots[id].active_sources = <<>> =>
            LET stored == {k \in 1..Len(source_links) : source_links[k].id = id}
            IN  /\ snapshots[id].outcome = "Err" => stored = {}
                /\ snapshots[id].outcome = "Ok" => Cardinality(stored) = 1
                /\ \A k \in stored :
                      /\ snapshots[id].returned =
                            Some(SourceLinkWithSources(source_links[k], <<>>))
                      /\ source_links[k].confidence_score = 0
                      /\ LinkedSourcesOf(linked_sources, id) = <<>>
                      /\ (/\ provenance # None
                          /\ provenance[1].ok
                          /\ provenance[1].doc_id = source_links[k].doc_id) =>
                            LET result == provenance[1].result
                                hits == {j \in 1..Len(result) :
                                            result[j].link.id = id}
                            IN  /\ Cardinality(hits) = 1
                                /\ \A j \in hits :
                                      result[j] = SourceLinkWithSources(
                                                      source_links[k], <<>>)
                                /\ Len(source_links) = 1 =>
                                      result = <<SourceLinkWithSources(
                                                     source_links[k], <<>>)>>

\* get_document_provenance has returned exactly the orphan link that a call
\* stored while the tracker held only an expired source.
C9_Witness ==
    \E id \in DOMAIN snapshots :
        /\ snapshots[id].held # <<>>
        /\ snapshots[id].active_sources = <<>>
        /\ snapshots[id].outcome = "Ok"
        /\ provenance # None
        /\ provenance[1].ok
        /\ Len(provenance[1].result) = 1
        /\ provenance[1].result[1].link.id = id
        /\ provenance[1].result[1].link.confidence_score = 0
        /\ provenance[1].result[1].sources = <<>>

\* C10: infer_contribution_type follows the table: Clipboard above 0.8 is
\* DirectCopy and at or below 0.8 Referenced; AIExchange is AIAssisted;
\* Webpage, Search and Document above 0.7 are Referenced and at or below 0.7
\* Inspired (0.8 and 0.7 being the f32 nearest to them); a Clipboard source
\* read 10 s after activation is DirectCopy, 25 s after Referenced.
C10_ContributionTable ==
    inferResult # None =>
        LET ty == inferArgs.source_type
            r == inferArgs.relevance
            got == inferResult[1]
        IN  /\ (ty = "Clipboard" /\ r > F32Tenths(8)) => got = "DirectCopy"
            /\ (ty = "Clipboard" /\ r <= F32Tenths(8)) => got = "Referenced"
            /\ ty = "AIExchange" => got = "AIAssisted"
            /\ (ty \in {"Webpage", "Search", "Document"} /\ r > F32Tenths(7))
                  => got = "Referenced"
            /\ (ty \in {"Webpage", "Search", "Document"} /\ r <= F32Tenths(7))
                  => got = "Inspired"
            /\ (ty = "Clipboard" /\ r = DecayedRelevance(0, 10000))
                  => got = "DirectCopy"
            /\ (ty = "Clipboard" /\ r = DecayedRelevance(0, 25000))
                  => got = "Referenced"

\* A Clipboard source whose relevance is exactly the threshold 0.8 has been
\* typed Referenced.
C10_Witness ==
    /\ inferArgs = [source_type |-> "Clipboard", relevance |-> F32Tenths(8)]
    /\ inferResult = Some("Referenced")

\* ---------------------------------------------------------------------
\* Claims about the tracker
\* ---------------------------------------------------------------------

\* C11: for an entry that is not re-activated, a later read never yields a
\* larger relevance than an earlier one; every read lies in [0, 1], and is 0
\* from 100 s after activation on.
C11_DecayMonotone ==
    decayResult # None =>
        LET r1 == decayResult[1][1]
            r2 == decayResult[1][2]
        IN  /\ r1 >= r2
            /\ 0 <= r2 /\ r1 <= F32_ONE
            /\ decayArgs.t1 >= decayArgs.activated_at + 100 * 1000 => r1 = 0
            /\ decayArgs.t2 >= decayArgs.activated_at + 100 * 1000 => r2 = 0
            /\ decayArgs.t1 = decayArgs.activated_at => r1 = F32_ONE

\* An entry read one millisecond before 100 s (still relevant) and again at
\* exactly 100 s (relevance 0).
C11_Witness ==
    /\ decayResult # None
    /\ decayArgs.t1 = decayArgs.activated_at + 99999
    /\ decayArgs.t2 = decayArgs.activated_at + 100000
    /\ decayResult[1][1] > 0
    /\ decayResult[1][2] = 0

\* The positions of the entries of srcs with the given source_id.
PositionsOf(srcs, source_id) ==
    {k \in 1..Len(srcs) : srcs[k].source_id = source_id}

\* C12: source_id is unique in the tracker, and activate_source on a
\* source_id already present refreshes that entry in place: the size and the
\* other entries are unchanged, exactly one entry has that id, at the same
\* position, with activated_at = now, the title of the call, the source_type
\* it was registered with, and relevance 1.0 when read immediately afterwards.
C12_RefreshInPlace ==
    [][/\ \A id \in SourceIds : Cardinality(PositionsOf(sources', id)) <= 1
       /\ \A a \in SourceArgs :
            (/\ PositionsOf(sources, a[2]) # {}
             /\ trackerOps' = trackerOps + 1
             /\ sources' = ActivateSource(sources, a[1], a[2], a[3], now)) =>
                /\ Len(sources') = Len(sources)
                /\ PositionsOf(sources', a[2]) = PositionsOf(sources, a[2])
                /\ Cardinality(PositionsOf(sources', a[2])) = 1
                /\ \A k \in 1..Len(sources) :
                      IF sources[k].source_id = a[2]
                      THEN /\ sources'[k].activated_at = now
                           /\ sources'[k].title = a[3]
                           /\ sources'[k].source_type = sources[k].source_type
                           /\ GetActiveSources(sources', Some(0), now)[1][k].relevance
                                = F32_ONE
                      ELSE sources'[k] = sources[k]]_vars

\* The page w1, registered as a Webpage with title "t" and activated again as
\* a Search with title "u" after it had decayed, in a full tracker, ahead of
\* an entry that was activated before the refresh.
C12_Witness ==
    /\ trackerOps >= 1
    /\ now > 0
    /\ Len(sources) = MAX_ACTIVE_SOURCES
    /\ sources[1].source_id = "w1"
    /\ sources[1].source_type = "Webpage"
    /\ sources[1].title = Some("u")
    /\ sources[1].activated_at = now
    /\ sources[1].relevance = F32_ONE
    /\ sources[2].activated_at < now

\* C13: the entry activate_source takes out of a full tracker has, with the
\* relevances recomputed by decay at that instant, a relevance less than or
\* equal to that of every entry that stays.
C13_EvictsLeastRelevant ==
    evicted # None =>
        /\ evicted[1].relevance = DecayedRelevance(evicted[1].activated_at, now)
        /\ \A k \in 1..(Len(sources) - 1) :
              /\ sources[k].relevance =
                    DecayedRelevance(sources[k].activated_at, now)
              /\ evicted[1].relevance <= sources[k].relevance

\* An eviction of an entry that has decayed, but not to 0, and is strictly
\* less relevant than the one that stays, which has decayed too.
C13_Witness ==
    /\ evicted # None
    /\ Len(sources) = MAX_ACTIVE_SOURCES
    /\ 0 < evicted[1].relevance
    /\ evicted[1].relevance < sources[1].relevance
    /\ sources[1].relevance < F32_ONE

\* C14: the tracker never holds more than MAX_ACTIVE_SOURCES entries; an
\* activation of a new source in a full tracker leaves it full, takes out
\* one of the entries that were there and not the new one, and the new entry
\* is there with relevance 1.0.
C14_TrackerBound ==
    /\ Len(sources) <= MAX_ACTIVE_SOURCES
    /\ evicted # None =>
          /\ Len(sources) = MAX_ACTIVE_SOURCES
          /\ PositionsOf(sources, evicted[1].source_id) = {}
          /\ sources[Len(sources)].source_id # evicted[1].source_id
          /\ sources[Len(sources)].activated_at = now
          /\ sources[Len(sources)].relevance = F32_ONE
          /\ evicted[1].activated_at <= now

\* A source activated in a full tracker after two ticks of the clock.
C14_Witness ==
    /\ evicted # None
    /\ trackerOps >= 1
    /\ now = MaxTicks * TickMs
    /\ Len(sources) = MAX_ACTIVE_SOURCES
    /\ sources[Len(sources)].relevance = F32_ONE
    /\ sources[Len(sources)].activated_at = now

\* ---------------------------------------------------------------------
\* Claims about the EventBuffer and the work blocks
\* ---------------------------------------------------------------------

\* The ids of the events of a sequence.
IdsOf(evs) == [k \in 1..Len(evs) |-> evs[k].id]

\* The ids of the events whose push has returned.
CompletedPushes ==
    (1..evPushed) \ {elocal[t].event[1].id :
                        t \in {u \in EbThreads : elocal[u].op = "push"}}

\* C15: a flush either returns None, with fewer than MIN_EVENTS_FOR_BLOCK
\* events buffered, and leaves events and current context as they were, or
\* returns Some(r), leaves the buffer empty, and r.events is exactly the
\* events buffered before it; with concurrent pushes and flushes every event
\* whose push has returned is in exactly one flush result or in the buffer,
\* once.
C15_FlushAtomic ==
    /\ lastFlush # None =>
          LET f == lastFlush[1]
          IN  IF f.result = None
              THEN /\ Len(f.pre_events) < 2
                   /\ events = f.pre_events
                   /\ current_context = f.pre_context
              ELSE /\ Len(f.pre_events) >= 2
                   /\ events = <<>>
                   /\ f.result[1].events = f.pre_events
                   /\ Len(f.result[1].events) = Len(f.pre_events)
    /\ LET held == flushedIds \o IdsOf(events)
       IN  \A id \in 1..evPushed :
              Cardinality({k \in 1..Len(held) : held[k] = id})
                = IF id \in CompletedPushes THEN 1 ELSE 0

\* A flush has returned two events while the other thread, holding the events
\* mutex, is about to push a third, after an earlier push and flush.
C15_Witness ==
    /\ lastFlush # None
    /\ lastFlush[1].result # None
    /\ Len(lastFlush[1].result[1].events) = 2
    /\ Len(flushedIds) = 2
    /\ \E t \in EbThreads : elocal[t].op = "push" /\ events_mutex = t
    /\ evPushed = 3

\* C16 as stated: context_switched is true exactly when the pair of the event
\* differs from the current context of the buffer, an absent context included.
C16_AsStated ==
    pushResult # None =>
        LET p == pushResult[1]
        IN  p.result.context_switched
              = (p.pre_context # Some(<<p.event.context_type, p.event.context_id>>))

\* C16: push appends the event, sets the current context to the event's
\* (context_type, context_id), and returns context_switched = true exactly
\* when the buffer had a current context and that pair differs from it,
\* should_flush = (length >= MAX_BUFFER_SIZE or context_switched), and
\* event_count = the length after the append.
C16_PushResult ==
    pushResult # None =>
        LET p == pushResult[1]
            pair == <<p.event.context_type, p.event.context_id>>
        IN  /\ events = Append(p.pre_events, p.event)
            /\ current_context = Some(pair)
            /\ p.result.context_switched
                 = (p.pre_context # None /\ p.pre_context[1] # pair)
            /\ p.result.should_flush
                 = (Len(events) >= MAX_BUFFER_SIZE \/ p.result.context_switched)
            /\ p.result.event_count = Len(events)

\* Edit@doc1 then Edit@doc2: the second push reports a context switch and
\* asks for a flush with two events buffered.
C16_Witness ==
    /\ pushResult # None
    /\ Len(events) = 2
    /\ events[1].event_type = "Edit" /\ events[1].context_id = Some("doc1")
    /\ events[2].event_type = "Edit" /\ events[2].context_id = Some("doc2")
    /\ pushResult[1].result.context_switched
    /\ pushResult[1].result.should_flush
    /\ pushResult[1].result.event_count = 2

\* C17 as stated: the buffer never holds more than MAX_BUFFER_SIZE events.
C17_AsStated == Len(events) <= MAX_BUFFER_SIZE

\* The urls of the Browse events of evs, each once, in order of first
\* occurrence.
RECURSIVE FirstOccurrencesFrom(_, _, _)
FirstOccurrencesFrom(evs, k, seen) ==
    IF k > Len(evs) THEN seen
    ELSE IF /\ evs[k].event_type = "Browse"
            /\ evs[k].url # None
            /\ \A j \in 1..Len(seen) : seen[j] # evs[k].url[1]
         THEN FirstOccurrencesFrom(evs, k + 1, Append(seen, evs[k].url[1]))
         ELSE FirstOccurrencesFrom(evs, k + 1, seen)

FirstOccurrences(evs) == FirstOccurrencesFrom(evs, 1, <<>>)

\* C18 as stated: research_urls is the list of distinct urls of the drained
\* Browse events in order of first occurrence, cut to the first 5.
C18_AsStated ==
    (lastFlush # None /\ lastFlush[1].result # None) =>
        LET first == FirstOccurrences(lastFlush[1].pre_events)
        IN  lastFlush[1].result[1].research_urls
              = SubSeq(first, 1, IF Len(first) < 5 THEN Len(first) ELSE 5)

\* The title a summary names: that of the context, "document" without one.
SummaryTitle == IF summaryArgs.title = None THEN "document" ELSE summaryArgs.title[1]

\* The count of the events of a type in the summarised sequence.
SummaryCount(t) ==
    summaryArgs.counts[CHOOSE k \in 1..Len(SummaryTypes) : SummaryTypes[k] = t]

\* C19 as stated: edits, a save and N browses (no tool) give 'Edited and saved
\* {title} with N site(s) researched'; edits alone give 'Edited {title}'; no
\* edit, browse, search or tool gives 'Brief activity on {title}'.
C19_AsStated ==
    summaryResult # None =>
        /\ (/\ SummaryCount("Edit") > 0 /\ SummaryCount("Save") > 0
            /\ SummaryCount("Browse") > 0 /\ SummaryCount("Tool") = 0) =>
              summaryResult[1] =
                "Edited and saved " \o SummaryTitle \o " with "
                \o ToString(SummaryCount("Browse"))
                \o (IF SummaryCount("Browse") = 1 THEN " site" ELSE " sites")
                \o " researched"
        /\ (/\ SummaryCount("Edit") > 0 /\ SummaryCount("Save") = 0
            /\ SummaryCount("Browse") = 0 /\ SummaryCount("Tool") = 0) =>
              summaryResult[1] = "Edited " \o SummaryTitle
        /\ (/\ SummaryCount("Edit") = 0 /\ SummaryCount("Browse") = 0
            /\ SummaryCount("Search") = 0 /\ SummaryCount("Tool") = 0) =>
              summaryResult[1] = "Brief activity on " \o SummaryTitle

\* C20 as stated: every persisted block has ended_at >= started_at and
\* duration_secs the whole seconds of ended_at - started_at.
C20_AsStated ==
    \A k \in 1..Len(work_blocks) :
        /\ work_blocks[k].ended_at >= work_blocks[k].started_at
        /\ work_blocks[k].duration_secs * 1000
             <= work_blocks[k].ended_at - work_blocks[k].started_at
        /\ work_blocks[k].ended_at - work_blocks[k].started_at
             < work_blocks[k].duration_secs * 1000 + 1000

\* The row of the digest the last content-store call named, before and after.
ContentCall == contentResult[1]
ContentCalled(op) == contentResult # None /\ ContentCall.op = op

\* C21: store_content is an upsert with bump. On an absent digest it inserts
\* a row with access_count 1 and last_accessed_at = created_at = now; on a
\* present digest it adds one to access_count and sets last_accessed_at to
\* now, leaving content, content_type, byte_size and created_at alone. Every
\* row has access_count >= 1, last_accessed_at >= created_at and byte_size
\* equal to the byte length of its content.
C21_StoreUpsert ==
    /\ \A h \in DOMAIN content_store :
          /\ content_store[h].access_count >= 1
          /\ content_store[h].last_accessed_at >= content_store[h].created_at
          /\ content_store[h].byte_size = ByteLen(content_store[h].content)
    /\ ContentCalled("store") =>
          LET h == ContentCall.hash
              before == ContentCall.before
              row == content_store[h]
          IN  /\ h \in DOMAIN content_store
              /\ DOMAIN content_store = DOMAIN before \cup {h}
              /\ \A g \in DOMAIN before \ {h} : content_store[g] = before[g]
              /\ row.last_accessed_at = contentNow
              /\ IF h \in DOMAIN before
                 THEN /\ row.access_count = before[h].access_count + 1
                      /\ row.content = before[h].content
                      /\ row.content_type = before[h].content_type
                      /\ row.byte_size = before[h].byte_size
                      /\ row.created_at = before[h].created_at
                 ELSE /\ row.access_count = 1
                      /\ row.created_at = contentNow
                      /\ row.content = ContentCall.content
                      /\ row.content_type = ContentCall.content_type

\* A store of another payload and kind under a present digest, at a later
\* instant, whose row holds a multi-byte character.
C21_Witness ==
    /\ ContentCalled("store")
    /\ ContentCall.hash \in DOMAIN ContentCall.before
    /\ ContentCall.content # content_store[ContentCall.hash].content
    /\ ContentCall.content_type # content_store[ContentCall.hash].content_type
    /\ contentNow > content_store[ContentCall.hash].created_at
    /\ content_store[ContentCall.hash].byte_size
         > Len(content_store[ContentCall.hash].content)

\* C22: cleanup removes exactly the entries with last_accessed_at older than
\* the TTL and access_count below 3; an entry with access_count >= 3 is
\* never removed and an entry accessed within the TTL is never removed.
C22_CleanupExact ==
    ContentCalled("cleanup") =>
        LET before == ContentCall.before
        IN  /\ DOMAIN content_store =
                 {h \in DOMAIN before :
                     ~(/\ before[h].last_accessed_at < contentNow - 30 * Day
                       /\ before[h].access_count < 3)}
            /\ \A h \in DOMAIN content_store : content_store[h] = before[h]
            /\ \A h \in DOMAIN before :
                 /\ before[h].access_count >= 3 => h \in DOMAIN content_store
                 /\ before[h].last_accessed_at >= contentNow - 30 * Day
                      => h \in DOMAIN content_store

\* After 31 idle days a cleanup removed an entry stored once and kept an
\* entry stored three times.
C22_Witness ==
    /\ ContentCalled("cleanup")
    /\ \E h \in DOMAIN ContentCall.before \ DOMAIN content_store :
          /\ ContentCall.before[h].access_count = 1
          /\ contentNow - ContentCall.before[h].last_accessed_at = 31 * Day
    /\ \E h \in DOMAIN content_store :
          /\ content_store[h].access_count = 3
          /\ contentNow - content_store[h].last_accessed_at = 31 * Day

\* C23: get_content of a present digest returns the payload first stored
\* under it, adds one to access_count and sets last_accessed_at to now;
\* get_content of an absent digest returns None and creates no entry.
C23_GetReturnsFirstStored ==
    ContentCalled("get") =>
        LET h == ContentCall.hash
            before == ContentCall.before
        IN  IF h \in DOMAIN before
            THEN /\ ContentCall.value = Some(firstStored[h])
                 /\ DOMAIN content_store = DOMAIN before
                 /\ content_store[h] =
                      [before[h] EXCEPT !.access_count = @ + 1,
                                        !.last_accessed_at = contentNow]
                 /\ \A g \in DOMAIN before \ {h} : content_store[g] = before[g]
            ELSE /\ ContentCall.value = None
                 /\ content_store = before

\* A hit, after the clock moved, on a digest that was stored more than once.
C23_Witness ==
    /\ ContentCalled("get")
    /\ ContentCall.hash \in DOMAIN ContentCall.before
    /\ ContentCall.value = Some(<<CharEAcute, CharA>>)
    /\ ContentCall.before[ContentCall.hash].access_count >= 2
    /\ ContentCall.before[ContentCall.hash].last_accessed_at < contentNow

C28_AsStated ==
    ~capture_config.source_linking_enabled =>
        /\ \A j \in 1..Len(source_links) : source_links[j].id = PriorLink.id
        /\ \A k \in 1..Len(linked_sources) :
              linked_sources[k].link_id = PriorLink.id

\* The sampler loops that have ended.
SamplerDone == {k \in 1..Len(tasks) : tasks[k].pc = "done"}

\* C26: cancellation of the sampler is cooperative and effective. Once stop()
\* has cleared the flag and start() has not acted since, every loop ends at
\* its next loop test, and no tick that began after the stop is under way or
\* has pushed a capture.
C26_StopEffective ==
    /\ [](lastPush # None => lastPush[1].began # "stop")
    /\ [](\A k \in 1..Len(tasks) :
            tasks[k].pc \in {"tick", "push"} => tasks[k].began # "stop")
    /\ (lastCtl = "stop") ~>
          (lastCtl = "start" \/ SamplerDone = 1..Len(tasks))

\* A loop that pushed a capture has ended after a stop().
C26_Witness ==
    /\ lastCtl = "stop"
    /\ ~running
    /\ SamplerDone # {}
    /\ \E j \in 1..Len(clipCalls) : clipCalls[j].ret

\* C27 as stated: a flush that meets a storage failure leaves every drained
\* batch either persisted in full, or not persisted at all and still in the
\* buffer for a later drain.
C27_AsStated ==
    [][capture_tables' # capture_tables =>
        \A f \in Family :
            \/ Ids(ring[f].buffer) \subseteq Ids(capture_tables'[f])
            \/ /\ capture_tables'[f] = capture_tables[f]
               /\ ring'[f].buffer = ring[f].buffer]_vars

\* C29 as stated: generate_preview(text, N) returns text unchanged when text
\* has at most N characters and otherwise its first N characters followed by
\* the ellipsis marker: the marker is appended exactly when the character
\* count exceeds N.
C29_AsStated ==
    previewResult # None =>
        LET text == previewArgs[1]
            N == previewArgs[2]
        IN  previewResult[1] =
                IF Len(text) <= N THEN text
                ELSE SubSeq(text, 1, N) \o <<CharDot, CharDot, CharDot>>

\* C30 as stated: when several entries share the least relevance at an
\* eviction, the entry evicted is the one with the oldest activated_at.
C30_AsStated ==
    evicted # None =>
        \A k \in 1..(Len(sources) - 1) :
            sources[k].relevance = evicted[1].relevance
                => evicted[1].activated_at <= sources[k].activated_at

\* C31: a sampler tick hands a capture to push_clipboard only if clipboard
\* capture is enabled, the clipboard read returned text that is not blank
\* and at most MAX_CLIPBOARD_SIZE bytes long, and its digest differs from the
\* loop's last-seen digest; the capture carries that digest. A tick that is
\* rejected pushes nothing and keeps the last-seen digest, a disabled tick
\* reads no clipboard, the buffer changes only in the push step of a tick
\* that passed, and no loop hands over two captures in a row with the same
\* digest.
C31_TickFilter ==
    /\ [][\A k \in 1..Len(tasks) :
            tasks[k].pc = "tick" =>
                /\ tasks'[k].pc \in {"tick", "push", "sleep"}
                /\ tasks'[k].pc = "push" =>
                    /\ capture_config.clipboard_enabled
                    /\ clipboard # None
                    /\ ~IsBlank(clipboard[1])
                    /\ ByteLen(clipboard[1]) <= MAX_CLIPBOARD_SIZE
                    /\ tasks[k].last_content_hash
                           # Some(hash_content(clipboard[1]))
                    /\ tasks'[k].last_content_hash
                           = Some(hash_content(clipboard[1]))
                /\ tasks'[k].pc = "sleep" =>
                    /\ tasks'[k].last_content_hash = tasks[k].last_content_hash
                    /\ tasks'[k].pushed = tasks[k].pushed
                /\ ~capture_config.clipboard_enabled => ~tasks'[k].read]_vars
    /\ [][ring' # ring \/ clipCalls' # clipCalls =>
            \E k \in 1..Len(tasks) :
                /\ tasks[k].pc = "push"
                /\ tasks'[k].pc = "sleep"
                /\ lastPush' # None
                /\ lastPush'[1].task = k
                /\ lastPush'[1].capture.content_hash
                       = tasks[k].last_content_hash[1]]_vars
    /\ [](lastPush # None =>
            lastPush[1].previous # Some(lastPush[1].capture.content_hash))

\* A loop has handed over two captures, and its tick on a blank clipboard
\* has been skipped after a read.
C31_Witness ==
    \E k \in 1..Len(tasks) :
        /\ tasks[k].pc = "sleep"
        /\ tasks[k].read
        /\ tasks[k].pushed # None
        /\ clipboard = Some(<<CharSpace>>)
        /\ Len(clipCalls) >= 2

\* The first of the drained events that carries the field, as an Option.
FirstCarried(evs, field) ==
    IF \E k \in 1..Len(evs) : evs[k][field] # None
    THEN evs[CHOOSE k \in 1..Len(evs) :
                /\ evs[k][field] # None
                /\ \A j \in 1..(k - 1) : evs[j][field] = None][field]
    ELSE None

\* C32 as stated: a flush result reports context_type as the common
\* context_type of the drained events when they all agree and Mixed
\* otherwise, and context_id and context_title each as the value carried by
\* the first drained event that has one.
C32_AsStated ==
    (lastFlush # None /\ lastFlush[1].result # None) =>
        LET drained == lastFlush[1].pre_events
            result == lastFlush[1].result[1]
        IN  /\ result.context_type =
                 IF \A j, k \in 1..Len(drained) :
                        drained[j].context_type = drained[k].context_type
                 THEN drained[1].context_type
                 ELSE "Mixed"
            /\ result.context_id = FirstCarried(drained, "context_id")
            /\ result.context_title = FirstCarried(drained, "context_title")

\* C33: the metrics of a flush result are computed from exactly the drained
\* events: the result holds all events the buffer held and the buffer is
\* left empty, started_at is the first event's timestamp, ended_at the
\* last's, edit_count the number of Edit events and browse_count the number
\* of Browse events.
C33_FlushMetrics ==
    (lastFlush # None /\ lastFlush[1].result # None) =>
        LET drained == lastFlush[1].pre_events
            result == lastFlush[1].result[1]
        IN  /\ result.events = drained
            /\ events = <<>>
            /\ result.started_at = drained[1].timestamp
            /\ result.ended_at = drained[Len(drained)].timestamp
            /\ result.edit_count =
                 Cardinality({k \in 1..Len(drained) :
                                drained[k].event_type = "Edit"})
            /\ result.browse_count =
                 Cardinality({k \in 1..Len(drained) :
                                drained[k].event_type = "Browse"})

\* Edit, Edit, Browse flushed: edit_count 2 and browse_count 1, over two
\* different timestamps.
C33_Witness ==
    /\ lastFlush # None
    /\ lastFlush[1].result # None
    /\ LET drained == lastFlush[1].pre_events
           result == lastFlush[1].result[1]
       IN  /\ Len(drained) = 3
           /\ drained[1].event_type = "Edit"
           /\ drained[2].event_type = "Edit"
           /\ drained[3].event_type = "Browse"
           /\ result.edit_count = 2
           /\ result.browse_count = 1
           /\ result.started_at < result.ended_at

\* The entries of a tracker with their relevance as decay gives it at time t.
DecayedAt(srcs, t) ==
    [k \in 1..Len(srcs) |->
        [srcs[k] EXCEPT !.relevance = DecayedRelevance(srcs[k].activated_at, t)]]

\* C34: apply_decay recomputes every entry's relevance and then removes
\* exactly the entries whose relevance is below the threshold of 0.3,
\* keeping every entry at or above it, in their order; on an empty tracker
\* it changes nothing; get_active_sources never changes which entries the
\* tracker holds.
C34_ApplyDecaySweep ==
    /\ [][apply_decay =>
            LET decayed == DecayedAt(sources, now)
                kept == {k \in 1..Len(sources) :
                           decayed[k].relevance >= MIN_RELEVANCE_THRESHOLD}
            IN  /\ Len(sources') = Cardinality(kept)
                /\ \A k \in kept : \E j \in 1..Len(sources') :
                       sources'[j] = decayed[k]
                /\ \A j \in 1..Len(sources') :
                       /\ sources'[j].relevance >= MIN_RELEVANCE_THRESHOLD
                       /\ \E k \in kept : sources'[j] = decayed[k]
                /\ \A i, j \in 1..Len(sources') : i < j =>
                       \E k, l \in kept :
                           /\ k < l
                           /\ sources'[i] = decayed[k]
                           /\ sources'[j] = decayed[l]
                /\ sources = <<>> => sources' = <<>>]_vars
    /\ [][get_active_sources =>
            /\ Len(sources') = Len(sources)
            /\ \A k \in 1..Len(sources) :
                   /\ sources'[k].source_id = sources[k].source_id
                   /\ sources'[k].source_type = sources[k].source_type
                   /\ sources'[k].title = sources[k].title
                   /\ sources'[k].activated_at = sources[k].activated_at]_vars

\* apply_decay has removed an entry 71 s old from a full tracker and kept
\* one 70 s old, whose relevance is the threshold itself.
C34_Witness ==
    /\ trackerOps >= 1
    /\ 0 < Len(sources)
    /\ Len(sources) < MAX_ACTIVE_SOURCES
    /\ now = 71000
    /\ \E k \in 1..Len(sources) :
          /\ sources[k].activated_at = 1000
          /\ sources[k].relevance = MIN_RELEVANCE_THRESHOLD
    /\ \A k \in 1..Len(sources) : sources[k].activated_at # 0

\* C35: deactivate_source(source_id) removes the entry with that source_id
\* and leaves every other entry, with its type, title, activated_at, cached
\* relevance and place in the order, unchanged; when no entry has that
\* source_id the tracker is unchanged.
C35_DeactivateFrame ==
    deactivated # None =>
        LET source_id == deactivated[1].source_id
            before == deactivated[1].before
            others == {k \in 1..Len(before) : before[k].source_id # source_id}
        IN  /\ Len(sources) = Cardinality(others)
            /\ \A j \in 1..Len(sources) : sources[j].source_id # source_id
            /\ \A k \in others :
                   sources[Cardinality({i \in others : i <= k})] = before[k]
            /\ others = 1..Len(before) => sources = before

\* The first of two entries has been deactivated after a read of the
\* tracker and a tick of the clock; the entry left holds the relevance of
\* that read.
C35_Witness ==
    /\ deactivated # None
    /\ Len(deactivated[1].before) = 2
    /\ deactivated[1].before[1].source_id = deactivated[1].source_id
    /\ Len(sources) = 1
    /\ sources[1] = deactivated[1].before[2]
    /\ sources[1].relevance < F32_ONE
    /\ sources[1].relevance # DecayedRelevance(sources[1].activated_at, now)

\* The place of a mutex in MutexOrder.
MutexRank(m) == CHOOSE k \in 1..Len(MutexOrder) : MutexOrder[k] = m

\* The thread is inside an operation and its next step is not a wait.
CanProceed(t) ==
    IF InCall(t)
    THEN NextInstr(t)[1] = "unlock" \/ owner[NextInstr(t)[2]] = 0
    ELSE FALSE

\* C36: no interleaving of concurrent CaptureBuffer and EventBuffer
\* operations deadlocks. A thread that locks a mutex while holding others
\* holds only mutexes earlier in one fixed order; a thread outside an
\* operation holds no mutex; whenever threads are inside operations one of
\* them can take a step; and every operation that starts completes.
C36_NoDeadlock ==
    /\ [](\A t \in LockThreads :
            (IF InCall(t) THEN NextInstr(t)[1] = "lock" ELSE FALSE) =>
                \A m \in Mutexes :
                    owner[m] = t => MutexRank(m) < MutexRank(NextInstr(t)[2]))
    /\ [](\A t \in LockThreads :
            ~InCall(t) => \A m \in Mutexes : owner[m] # t)
    /\ []((\E t \in LockThreads : InCall(t)) =>
            \E t \in LockThreads : CanProceed(t))
    /\ \A t \in LockThreads : InCall(t) ~> ~InCall(t)

\* One thread is in drain_all holding the five family mutexes while the
\* other, in status, waits for the first of them, a third operation having
\* completed before.
C36_Witness ==
    \E t, u \in LockThreads :
        /\ t # u
        /\ calls[t].op.name = "drain_all"
        /\ \A f \in Family : owner[f] = t
        /\ calls[u].op.name = "status"
        /\ ~CanProceed(u)
        /\ lockOps = MaxLockOps

\* The sampler loops inside a tick: their loop test found the flag set and
\* they have not yet gone back to sleep.
SamplerPolling == {k \in 1..Len(tasks) : tasks[k].pc \in {"tick", "push"}}

\* C37 as stated: across any sequence and interleaving of start() and stop()
\* calls, at most one sampler loop is polling the clipboard at any time.
C37_AsStated == Cardinality(SamplerPolling) <= 1

\* The last push_clipboard call before call j that was accepted, 0 for none
\* (among the calls since the last clear).
LastAccepted(j) ==
    IF \E k \in 1..(j - 1) : clipCalls[k].ret
    THEN CHOOSE k \in 1..(j - 1) :
            clipCalls[k].ret /\ \A i \in (k + 1)..(j - 1) : ~clipCalls[i].ret
    ELSE 0

\* C38: drain_all leaves the clipboard last-hash slot untouched and clear
\* resets it. Among the push_clipboard calls since the last clear, whatever
\* drains came between them, a call is rejected exactly when it carries the
\* digest of the last accepted call; a call is accepted exactly when its
\* digest is not in the slot, which is empty after a clear.
C38_DrainKeepsGuard ==
    /\ [](\A j \in 1..Len(clipCalls) :
            clipCalls[j].ret =
                IF LastAccepted(j) = 0 THEN TRUE
                ELSE clipCalls[LastAccepted(j)].content_hash
                        # clipCalls[j].content_hash)
    /\ [][drain_all => last_clipboard_hash' = last_clipboard_hash]_vars
    /\ [][clear => last_clipboard_hash' = None]_vars
    /\ [][Len(clipCalls') = Len(clipCalls) + 1 =>
            clipCalls'[Len(clipCalls')].ret =
                (last_clipboard_hash
                    # Some(clipCalls'[Len(clipCalls')].content_hash))]_vars

\* h1 was accepted and drained; the next push_clipboard, of h1 again, found
\* the ring empty and was rejected.
C38_Witness ==
    /\ Len(clipCalls) = 2
    /\ clipCalls[1].content_hash = "h1" /\ clipCalls[1].ret
    /\ clipCalls[2].content_hash = "h1" /\ ~clipCalls[2].ret
    /\ clipCalls[2].len_before = 0
    /\ clipCalls[2].epoch > clipCalls[1].epoch
    /\ RingBuffer_len(ring["clipboard"]) = 0

\* C39 as stated: the (source_url, source_title) of every capture is the
\* pair installed by one single set_active_source call, or the initial pair
\* of two absent values.
C39_AsStated ==
    capturedSource # None => capturedSource[1] \in SourcePairs

\* The step is a push (only push leaves a push result behind).
PushStep == pushResult' # None /\ evPushed' = evPushed + 1

\* The step is a flush taken right after a push that reported a context
\* switch, and it returns one block holding the events buffered before that
\* push followed by the pushed event.
FlushAfterSwitch ==
    (/\ pushResult # None
     /\ pushResult[1].result.context_switched
     /\ lastFlush' # None)
    => /\ events = Append(pushResult[1].pre_events, pushResult[1].event)
       /\ lastFlush'[1].result # None
       /\ lastFlush'[1].result[1].events =
            Append(pushResult[1].pre_events, pushResult[1].event)

\* The state is the one a clear leaves (also the one of construction).
AfterClear == pushResult = None /\ lastFlush = None

\* C40 as stated: a flush right after a push that reported context_switched
\* returns one block with the earlier events and the pushed one, and the
\* first push after any flush or clear reports no context switch.
C40_AsStated ==
    [][/\ FlushAfterSwitch
       /\ (PushStep /\ (lastFlush # None \/ AfterClear))
            => ~pushResult'[1].result.context_switched]_vars

\* C40, amended: a flush right after a push that reported context_switched
\* returns one block with the earlier events and the pushed one, and the
\* first push after a flush that returned a block, or after a clear, reports
\* no context switch.
C40_FlushAfterSwitch ==
    [][/\ FlushAfterSwitch
       /\ (/\ PushStep
           /\ IF lastFlush # None THEN lastFlush[1].result # None
              ELSE AfterClear)
            => ~pushResult'[1].result.context_switched]_vars

\* At least two events were pushed, a flush that returned a block or a clear
\* emptied the buffer and reset the context, and the push after it has been
\* made: it found no events and no context and reported no context switch.
C40_Witness ==
    /\ pushResult # None
    /\ pushResult[1].pre_events = <<>>
    /\ pushResult[1].pre_context = None
    /\ pushResult[1].event.id >= 3
    /\ ebOps >= 1
    /\ ~pushResult[1].result.context_switched

====
